---- MODULE Spec2Model ----
(***************************************************************************)
(* Stream Scheduler Manager (src/python/StreamSchedulerManagerEnhanced.py) *)
(* The schedule document, its persistence, the Tk slot editors, the        *)
(* derivation of a new slot's default time, and the /api/config routes.    *)
(*                                                                         *)
(* Text the program parses (a slot's time) is a sequence of one-character  *)
(* strings, so that split/int/format are computed as Python computes them. *)
(* Text the program only copies (titles, labels) is a plain string.        *)
(***************************************************************************)
EXTENDS Integers, Sequences, FiniteSets, TLC

VARIABLES
    manager,      \* module-level `manager`: FALSE is None, TRUE is the StreamSchedulerManager
    phase,        \* "import" | "started" (manager built, server up) | "gui" | "exited"
    config,       \* manager.config, the in-memory document
    storage,      \* config.json: [state: "absent" | "ok" | "corrupt", doc]
    disk,         \* what the next write of config.json meets: "ok" | "denied" | "partial"
    slot_frames,  \* manager.slot_frames: frame key -> list of SlotEditorFrame
    widgets,      \* the entries and variables save_all_changes reads
    op,           \* the last UI operation and how it ended
    resp,         \* the last HTTP response
    nops,         \* operations performed so far
    race,         \* the two threads of one UI handler racing one POST, step by step
    discord_output \* the Discord tab's output box and what the last generation did

vars == <<manager, phase, config, storage, disk, slot_frames, widgets, op, resp, nops, race, discord_output>>

(***************************************************************************)
(* Characters and Python's str/int primitives                              *)
(***************************************************************************)
DigitChars == <<"0", "1", "2", "3", "4", "5", "6", "7", "8", "9">>

IsDigit(c) == \E i \in 1..10 : DigitChars[i] = c

DigitVal(c) == (CHOOSE i \in 1..10 : DigitChars[i] = c) - 1

IsSpace(c) == c \in {" ", "\t", "\n"}

\* str(n) for an int
RECURSIVE NatToStr(_)
NatToStr(n) ==
    IF n < 10 THEN <<DigitChars[n + 1]>>
    ELSE NatToStr(n \div 10) \o <<DigitChars[(n % 10) + 1]>>

IntToStr(n) == IF n < 0 THEN <<"-">> \o NatToStr(0 - n) ELSE NatToStr(n)

\* format(n, "02d"): zero-padded to width 2, the sign counting in the width
Pad2(n) ==
    LET s == IntToStr(n)
    IN  IF Len(s) >= 2 THEN s ELSE <<"0">> \o s

RECURSIVE DigitsValue(_)
DigitsValue(s) ==
    IF Len(s) = 0 THEN 0
    ELSE 10 * DigitsValue(SubSeq(s, 1, Len(s) - 1)) + DigitVal(s[Len(s)])

AllDigits(s) == Len(s) > 0 /\ \A i \in 1..Len(s) : IsDigit(s[i])

\* int(s): an optional sign, then decimal digits; anything else raises ValueError
ParseInt(s) ==
    IF AllDigits(s) THEN [ok |-> TRUE, val |-> DigitsValue(s)]
    ELSE IF Len(s) >= 2 /\ s[1] = "-" /\ AllDigits(Tail(s))
         THEN [ok |-> TRUE, val |-> 0 - DigitsValue(Tail(s))]
    ELSE IF Len(s) >= 2 /\ s[1] = "+" /\ AllDigits(Tail(s))
         THEN [ok |-> TRUE, val |-> DigitsValue(Tail(s))]
    ELSE [ok |-> FALSE, val |-> 0]

StartsWith(s, sep) == Len(s) >= Len(sep) /\ SubSeq(s, 1, Len(sep)) = sep

\* the least position at which sep occurs in s, 0 when it does not
FindSep(s, sep) ==
    LET hits == {i \in 1..Len(s) : StartsWith(SubSeq(s, i, Len(s)), sep)}
    IN  IF hits = {} THEN 0 ELSE CHOOSE i \in hits : \A j \in hits : i <= j

\* s.split(sep) for a non-empty separator
RECURSIVE SplitOn(_, _)
SplitOn(s, sep) ==
    LET i == FindSep(s, sep)
    IN  IF i = 0 THEN <<s>>
        ELSE <<SubSeq(s, 1, i - 1)>> \o SplitOn(SubSeq(s, i + Len(sep), Len(s)), sep)

\* s.split(): the maximal runs of non-whitespace characters
RECURSIVE SplitWS(_)
SplitWS(s) ==
    IF Len(s) = 0 THEN <<>>
    ELSE IF IsSpace(s[1]) THEN SplitWS(Tail(s))
    ELSE LET stops == {i \in 1..Len(s) : IsSpace(s[i])}
             e == IF stops = {} THEN Len(s) + 1
                  ELSE CHOOSE i \in stops : \A j \in stops : i <= j
         IN  <<SubSeq(s, 1, e - 1)>> \o SplitWS(SubSeq(s, e, Len(s)))

RangeSep == <<" ", "-", " ">>
Colon == <<":">>
AM == <<"A", "M">>
PM == <<"P", "M">>

\* f"{hour}:{minute:02d} {ampm}"
FormatTime(hour, minute, ampm) == IntToStr(hour) \o Colon \o Pad2(minute) \o <<" ">> \o ampm

\* f"{start} - {end}"
FormatRange(start, end) == start \o RangeSep \o end

(***************************************************************************)
(* add_new_slot: the default time of a new slot                            *)
(***************************************************************************)
DefaultTitle == "New Stream Session"
DefaultDesc == "Description of this stream session"

\* "9:30 AM - 12:30 PM", the time given when the sequence is empty
EmptyDefaultTime == FormatRange(FormatTime(9, 30, AM), FormatTime(12, 30, PM))

\* "2:00 PM - 5:00 PM", the time given when the try block raises
FallbackTime == FormatRange(FormatTime(2, 0, PM), FormatTime(5, 0, PM))

\* lines 503..509: the end time of the last slot, or the exception
ParseEndTime(time) ==
    LET parts == SplitOn(time, RangeSep)
        bad == [ok |-> FALSE, hour |-> 0, minute |-> 0, ampm |-> <<>>]
    IN  IF Len(parts) # 2 THEN bad                      \* unpacking raises ValueError
        ELSE LET time_parts == SplitWS(parts[2])
             IN  IF Len(time_parts) = 0 THEN bad        \* time_parts[0]: IndexError
                 ELSE LET hour_min == SplitOn(time_parts[1], Colon)
                          hour == ParseInt(hour_min[1])
                      IN  IF ~hour.ok THEN bad          \* int(): ValueError
                          ELSE IF Len(hour_min) < 2 THEN bad   \* hour_min[1]: IndexError
                          ELSE LET minute == ParseInt(hour_min[2])
                               IN  IF ~minute.ok THEN bad
                                   ELSE IF Len(time_parts) < 2 THEN bad  \* time_parts[1]
                                   ELSE [ok |-> TRUE, hour |-> hour.val,
                                         minute |-> minute.val, ampm |-> time_parts[2]]

\* the meridiem flipped on the way from 12:xx to 1:xx instead of from 11:xx to 12:xx
AddThirtyMinutesFlipAtOne(hour, minute, ampm) ==
    LET m1 == minute + 30
    IN  IF m1 >= 60
        THEN LET h1 == hour + 1
                 m2 == m1 - 60
             IN  IF h1 > 12 THEN [hour |-> 1, minute |-> m2, ampm |-> IF ampm = <<"A", "M">>
                                                                    THEN <<"P", "M">>
                                                                    ELSE <<"A", "M">>]
                 ELSE [hour |-> h1, minute |-> m2, ampm |-> ampm]
        ELSE [hour |-> hour, minute |-> m1, ampm |-> ampm]

\* lines 511..523: the end time plus 30 minutes
AddThirtyMinutes(hour, minute, ampm) ==
    LET m1 == minute + 30
    IN  IF m1 >= 60
        THEN LET h1 == hour + 1
                 m2 == m1 - 60
             IN  IF h1 > 12 THEN [hour |-> 1, minute |-> m2, ampm |-> ampm]
                 ELSE IF h1 = 12 /\ ampm = AM THEN [hour |-> h1, minute |-> m2, ampm |-> PM]
                 ELSE IF h1 = 12 /\ ampm = PM THEN [hour |-> h1, minute |-> m2, ampm |-> AM]
                 ELSE [hour |-> h1, minute |-> m2, ampm |-> ampm]
        ELSE [hour |-> hour, minute |-> m1, ampm |-> ampm]

\* "PM" if ampm == "AM" else "AM"
FlipAmpm(ampm) == IF ampm = AM THEN PM ELSE AM

\* three hours added with no wrap at 12
AddThreeHoursUnwrapped(hour, minute, ampm) ==
    [hour |-> hour + 3, minute |-> minute, ampm |-> ampm]

\* lines 525..534: the start time plus 3 hours
AddThreeHours(hour, minute, ampm) ==
    LET end_hour == hour + 3
    IN  IF end_hour > 12
        THEN [hour |-> end_hour - 12, minute |-> minute, ampm |-> FlipAmpm(ampm)]
        ELSE IF end_hour = 12
        THEN [hour |-> end_hour, minute |-> minute, ampm |-> FlipAmpm(ampm)]
        ELSE [hour |-> end_hour, minute |-> minute, ampm |-> ampm]

\* the two literal defaults exchanged
NewSlotTimeDefaultsSwapped(slots) ==
    IF Len(slots) > 0
    THEN LET p == ParseEndTime(slots[Len(slots)].time)
         IN  IF p.ok
             THEN LET s == AddThirtyMinutes(p.hour, p.minute, p.ampm)
                      e == AddThreeHours(s.hour, s.minute, s.ampm)
                  IN  FormatRange(FormatTime(s.hour, s.minute, s.ampm),
                                  FormatTime(e.hour, e.minute, e.ampm))
             ELSE EmptyDefaultTime
    ELSE FallbackTime

\* lines 499..539: new_time
NewSlotTime(slots) ==
    IF Len(slots) > 0
    THEN LET p == ParseEndTime(slots[Len(slots)].time)
         IN  IF p.ok
             THEN LET s == AddThirtyMinutes(p.hour, p.minute, p.ampm)
                      e == AddThreeHours(s.hour, s.minute, s.ampm)
                  IN  FormatRange(FormatTime(s.hour, s.minute, s.ampm),
                                  FormatTime(e.hour, e.minute, e.ampm))
             ELSE FallbackTime
    ELSE EmptyDefaultTime

\* a new slot that takes over the title of the slot before it
NewSlotKeepsTitle(slots) ==
    [time |-> NewSlotTime(slots),
     title |-> IF Len(slots) > 0 THEN slots[Len(slots)].title ELSE DefaultTitle,
     desc |-> DefaultDesc]

\* lines 541..545: new_slot
NewSlot(slots) == [time |-> NewSlotTime(slots), title |-> DefaultTitle, desc |-> DefaultDesc]

(***************************************************************************)
(* The document                                                            *)
(***************************************************************************)
Days == {"today", "tomorrow"}
Types == {"normal", "work"}
FrameKeys == {"today_normal", "today_work", "tomorrow_normal", "tomorrow_work"}

\* day, stype = frame_key.split('_')
KeyDay == [today_normal |-> "today", today_work |-> "today",
           tomorrow_normal |-> "tomorrow", tomorrow_work |-> "tomorrow"]
KeyType == [today_normal |-> "normal", today_work |-> "work",
            tomorrow_normal |-> "normal", tomorrow_work |-> "work"]

\* self.config["schedule"][day][stype]
Slots(cfg, k) == cfg.schedule[KeyDay[k]][KeyType[k]]

WithSlots(cfg, k, s) == [cfg EXCEPT !.schedule[KeyDay[k]][KeyType[k]] = s]

\* schedule[day][schedule[day].type]
ActiveSlots(cfg, day) == cfg.schedule[day][cfg.schedule[day].type]

TimeRange(h1, m1, a1, h2, m2, a2) == FormatRange(FormatTime(h1, m1, a1), FormatTime(h2, m2, a2))

Slot(time, title, desc) == [time |-> time, title |-> title, desc |-> desc]

DefaultNormal ==
    << Slot(TimeRange(9, 30, AM, 12, 30, PM), "Morning Warmup",
            "Clearing admin tasks, then jumping into chill development."),
       Slot(TimeRange(1, 0, PM, 4, 0, PM), "Focused Development + Prototype Speedrun",
            "Getting stuff done and making things happen"),
       Slot(TimeRange(5, 0, PM, 8, 0, PM), "Greenlight Development",
            "You picked it, now we're building it."),
       Slot(TimeRange(9, 0, PM, 12, 0, AM), "Late Night Admin",
            "Winding down with some chill development.") >>

DefaultWork ==
    << Slot(TimeRange(9, 30, AM, 12, 30, PM), "Morning Warmup",
            "Clearing admin tasks, then jumping into chill development."),
       Slot(TimeRange(12, 30, PM, 3, 30, PM), "Focused Development + Prototype Speedrun",
            "Getting stuff done and making things happen") >>

DefaultLayout ==
    [outerPadding |-> [top |-> 32, bottom |-> 32, left |-> 32, right |-> 32],
     innerPadding |-> [top |-> 32, bottom |-> 32, left |-> 32, right |-> 32],
     glow |-> [title |-> 20, link |-> 15, panel |-> 50, intensity |-> 50]]

\* lines 380..405.  A text is a sequence of atoms: each {{placeholder}} is one atom, and
\* so is each line break; the emoji of the source are left out
DefaultDiscord ==
    [templates |->
        << [name |-> "Stream Starting Soon",
            title |-> <<"Stream Starting Soon!">>,
            message |-> <<"@everyone Hey folks! Stream is starting in ", "{{time}}",
                          " minutes!", "\n", "\n", "**Today's Schedule:**", "\n",
                          "{{schedule}}", "\n", "\n", "Join us at: ", "{{link}}">>,
            useTimestamp |-> TRUE, timestampFormat |-> "R"],
           [name |-> "Stream Live",
            title |-> <<"WE'RE LIVE!">>,
            message |-> <<"@everyone We're live right now!", "\n", "\n",
                          "**Today's Schedule:**", "\n", "{{schedule}}", "\n", "\n",
                          "Watch at: ", "{{link}}">>,
            useTimestamp |-> FALSE, timestampFormat |-> "t"],
           [name |-> "Schedule Update",
            title |-> <<"Schedule Update">>,
            message |-> <<"Hey everyone! Here's our streaming schedule:", "\n", "\n",
                          "**Today:** ", "{{today_type}}", "\n", "{{today_schedule}}",
                          "\n", "\n", "**Tomorrow:** ", "{{tomorrow_type}}", "\n",
                          "{{tomorrow_schedule}}", "\n", "\n", "Times are in ",
                          "{{timezone}}">>,
            useTimestamp |-> FALSE, timestampFormat |-> "f"] >>,
     currentTemplate |-> 0,
     customMessage |-> [title |-> <<"Doubling our Usual Hours!">>, message |-> <<>>,
                        useTimestamp |-> TRUE, timestampFormat |-> "t"]]

\* lines 331..406: the hardcoded default configuration
DefaultConfig ==
    [channel |-> [name |-> "Audacious Gabe", link |-> "https://www.twitch.tv/audaciousgabe"],
     theme |-> "twilight",
     timezone |-> "EST",
     exportScope |-> "full",
     schedule |->
        [today |-> [type |-> "normal", title |-> "Today's Stream",
                    normal |-> DefaultNormal, work |-> DefaultWork],
         tomorrow |-> [type |-> "work", title |-> "Tomorrow's Stream",
                       normal |-> DefaultNormal, work |-> DefaultWork]],
     layout |-> DefaultLayout,
     discord |-> DefaultDiscord]

(***************************************************************************)
(* config.json.  A slot collection in the file is a JSON array or, in the  *)
(* legacy form, a JSON object keyed by index strings:                      *)
(*   [kind |-> "list", keys |-> <<>>, items |-> slots]                     *)
(*   [kind |-> "dict", keys |-> keys in file order, items |-> their slots] *)
(***************************************************************************)
NoDoc == [none |-> TRUE]

ListNode(slots) == [kind |-> "list", keys |-> <<>>, items |-> slots]

DictNode(keys, slots) == [kind |-> "dict", keys |-> keys, items |-> slots]

\* json.dump(self.config): the tree written for an in-memory document
ToJson(cfg) ==
    [cfg EXCEPT !.schedule =
        [d \in DOMAIN cfg.schedule |->
            [cfg.schedule[d] EXCEPT !.normal = ListNode(@), !.work = ListNode(@)]]]

\* str < str on keys made of digits: Python compares code points, left to right
RECURSIVE KeyLess(_, _)
KeyLess(a, b) ==
    IF Len(b) = 0 THEN FALSE
    ELSE IF Len(a) = 0 THEN TRUE
    ELSE IF a[1] # b[1] THEN DigitVal(a[1]) < DigitVal(b[1])
    ELSE KeyLess(Tail(a), Tail(b))

\* for key in sorted(d.keys()): slots.append(d[key])
SortedItems(node) ==
    LET n == Len(node.keys)
        rank(i) == Cardinality({j \in 1..n : KeyLess(node.keys[j], node.keys[i])})
    IN  [r \in 1..n |-> node.items[CHOOSE i \in 1..n : rank(i) = r - 1]]

\* lines 318..325: a dict of slots becomes the list of its values in sorted key order
NormalizeSlots(node) == IF node.kind = "dict" THEN SortedItems(node) ELSE node.items

FromJson(tree) ==
    [tree EXCEPT !.schedule =
        [d \in DOMAIN tree.schedule |->
            [tree.schedule[d] EXCEPT !.normal = NormalizeSlots(@), !.work = NormalizeSlots(@)]]]

\* a file that exists, but whose open() is refused, is read as if it held its text
ReadableIgnoringPermissions(st) == st.state \in {"ok", "unreadable"}

\* lines 314..316: the file exists, open() succeeds and json.load parses its text
Readable(st) == st.state = "ok"

\* the root of the parsed text is a JSON object
IsMapping(doc) == "kind" \notin DOMAIN doc

\* lines 318..320: config['schedule'][day][type] can be subscripted for both days and both
\* types; on a root that is no object it raises TypeError, on a missing key KeyError
HasSlotLists(doc) ==
    /\ IsMapping(doc)
    /\ "schedule" \in DOMAIN doc
    /\ \A day \in Days :
          /\ day \in DOMAIN doc.schedule
          /\ Types \subseteq DOMAIN doc.schedule[day]

\* lines 311..406: load_config.  Every exception is caught at line 327, and the hardcoded
\* default document is returned
load_config(st) ==
    IF Readable(st) /\ HasSlotLists(st.doc) THEN FromJson(st.doc) ELSE DefaultConfig

DiskModes == {"ok", "denied", "partial"}

\* a name read from the escape \ud83d: half of a surrogate pair
LoneSurrogateName == "Gabe[U+D83D]"

\* f.write() with encoding='utf-8' raises UnicodeEncodeError on a lone surrogate
Utf8Encodable(text) == text # LoneSurrogateName

\* line 412: json.dump(..., ensure_ascii=False) can write every string of the document
Encodable(cfg) ==
    "channel" \in DOMAIN cfg => \A f \in DOMAIN cfg.channel : Utf8Encodable(cfg.channel[f])

\* a save that patches only the schedule into the stored document
StorageAfterSchedulePatch(st, cfg, w) ==
    IF w = "ok" /\ Encodable(cfg)
    THEN [state |-> "ok",
          doc |-> IF st.state = "ok" /\ HasSlotLists(st.doc)
                  THEN [st.doc EXCEPT !.schedule = ToJson(cfg).schedule]
                  ELSE ToJson(cfg)]
    ELSE IF w = "denied" THEN st
    ELSE [state |-> "corrupt", doc |-> NoDoc]

\* lines 408..416: save_config.  open(..., 'w') may be refused (the file is left as it
\* was), or the write may fail after the file was truncated (the file is left unparseable)
StorageAfterSave(st, cfg, w) ==
    IF w = "ok" /\ Encodable(cfg) THEN [state |-> "ok", doc |-> ToJson(cfg)]
    ELSE IF w = "denied" THEN st
    ELSE [state |-> "corrupt", doc |-> NoDoc]

\* lines 408..416: what save_config returns
save_config(cfg, w) == w = "ok" /\ Encodable(cfg)

(***************************************************************************)
(* The Tk widgets                                                          *)
(***************************************************************************)
\* an editor that has a delete button whatever its index
SlotEditorFrameAlwaysDeletable(slot_data, index) ==
    [slot_index |-> index,
     start |-> IF Len(SplitOn(slot_data.time, RangeSep)) = 2
               THEN SplitOn(slot_data.time, RangeSep)[1] ELSE FormatTime(9, 30, AM),
     end |-> IF Len(SplitOn(slot_data.time, RangeSep)) = 2
             THEN SplitOn(slot_data.time, RangeSep)[2] ELSE FormatTime(12, 30, PM),
     title |-> slot_data.title,
     desc |-> slot_data.desc,
     time |-> slot_data.time,
     deletable |-> TRUE]

\* lines 167..252: SlotEditorFrame.__init__.  The two time buttons show the halves of the
\* slot's time, or "9:30 AM" and "12:30 PM" when it does not split in two; the delete
\* button exists only for an editor created at an index above 0 (line 486)
SlotEditorFrame(slot_data, index) ==
    LET parts == SplitOn(slot_data.time, RangeSep)
        two == Len(parts) = 2
    IN  [slot_index |-> index,
         start |-> IF two THEN parts[1] ELSE FormatTime(9, 30, AM),
         end |-> IF two THEN parts[2] ELSE FormatTime(12, 30, PM),
         title |-> slot_data.title,
         desc |-> slot_data.desc,
         time |-> slot_data.time,
         deletable |-> index > 0]

\* lines 287..293: get_slot_data
get_slot_data(frame) ==
    [time |-> FormatRange(frame.start, frame.end), title |-> frame.title, desc |-> frame.desc]

\* the editor's slot_data dict
SlotData(frame) == [time |-> frame.time, title |-> frame.title, desc |-> frame.desc]

\* lines 455..458: one editor per slot, in order
EditorsFor(slots) == [i \in 1..Len(slots) |-> SlotEditorFrame(slots[i], i - 1)]

NoWidgets ==
    [name_entry |-> "", link_entry |-> "", timezone_entry |-> "", theme_var |-> "",
     export_scope |-> "", today_type |-> "", today_title_entry |-> "",
     tomorrow_type |-> "", tomorrow_title_entry |-> "",
     discord_template_var |-> 0, template_radios |-> 0, use_timestamps |-> FALSE]

\* config.get(key, default)
Get(cfg, key, default) == IF key \in DOMAIN cfg THEN cfg[key] ELSE default

\* lines 718..843 and 913..941: the entries and variables, filled from the document; one
\* radio button per template and one for "Custom"
WidgetsFor(cfg) ==
    [name_entry |-> cfg.channel.name,
     link_entry |-> cfg.channel.link,
     timezone_entry |-> Get(cfg, "timezone", "EST"),
     theme_var |-> Get(cfg, "theme", "twilight"),
     export_scope |-> Get(cfg, "exportScope", "full"),
     today_type |-> cfg.schedule.today.type,
     today_title_entry |-> cfg.schedule.today.title,
     tomorrow_type |-> cfg.schedule.tomorrow.type,
     tomorrow_title_entry |-> cfg.schedule.tomorrow.title,
     discord_template_var |-> 0,
     template_radios |-> Len(cfg.discord.templates) + 1,
     use_timestamps |-> TRUE]

NoFrames == [k \in FrameKeys |-> <<>>]

NoOp ==
    [name |-> "none", key |-> "", index |-> 0, result |-> "none", write |-> "none",
     data |-> NoDoc]

NoResp == [status |-> 0, body |-> NoDoc]

\* lines 945..954: the output box is empty until a message is generated
NoOutput == [text |-> <<>>, error |-> FALSE, today |-> <<>>, tomorrow |-> <<>>]

NoSlot == [time |-> <<>>, title |-> "", desc |-> ""]

\* no handler and no request in flight
NoRace ==
    [ui |-> "none", key |-> "", pos |-> 0, upc |-> "done", ustep |-> 0, stale |-> FALSE,
     unew |-> NoSlot, uindex |-> 0, ubuf |-> NoDoc,
     data |-> NoDoc, hpc |-> "done", hbuf |-> NoDoc, last |-> "none"]

(***************************************************************************)
(* Bounds and inputs                                                       *)
(***************************************************************************)
MaxOps == 3

SlotLate == Slot(TimeRange(9, 0, PM, 12, 0, AM), "Late", "late desc")
SlotNoon == Slot(TimeRange(10, 45, AM, 11, 45, AM), "Noon", "noon desc")
SlotTBD == Slot(<<"T", "B", "D">>, "Later", "to be decided")

StoredConfig ==
    [channel |-> [name |-> "Gabe", link |-> "https://twitch.tv/gabe"],
     theme |-> "twilight",
     timezone |-> "EST",
     exportScope |-> "full",
     schedule |->
        [today |-> [type |-> "normal", title |-> "Today",
                    normal |-> <<SlotLate>>, work |-> <<SlotTBD>>],
         tomorrow |-> [type |-> "work", title |-> "Tomorrow",
                       normal |-> <<SlotNoon>>, work |-> <<SlotNoon, SlotLate>>]],
     layout |-> DefaultLayout,
     discord |-> DefaultDiscord]

\* the same document with tomorrow's work slots stored as {"1": ..., "0": ...}
LegacyTree ==
    [ToJson(StoredConfig) EXCEPT
        !.schedule.tomorrow.work = DictNode(<< <<"1">>, <<"0">> >>, <<SlotLate, SlotNoon>>)]

InitialStorages ==
    { [state |-> "ok", doc |-> ToJson(StoredConfig)],
      [state |-> "ok", doc |-> LegacyTree] }

\* what the time picker returns: f"{hour}:{minute:02d} {ampm}"
PickerTimes == {FormatTime(11, 30, PM)}

EntryTexts == {"Edited"}

EmptySchedule ==
    [today |-> [type |-> "normal", title |-> "Posted", normal |-> <<>>, work |-> <<SlotNoon>>],
     tomorrow |-> [type |-> "work", title |-> "Posted", normal |-> <<SlotNoon>>, work |-> <<>>]]

PostedSchedule ==
    [today |-> [type |-> "work", title |-> "Posted",
                normal |-> <<SlotNoon>>, work |-> <<SlotNoon, SlotLate, SlotTBD>>],
     tomorrow |-> [type |-> "normal", title |-> "Posted",
                   normal |-> <<SlotLate>>, work |-> <<SlotNoon>>]]

\* request.json
PostBodies ==
    { [theme |-> "forest"],
      [channel |-> [name |-> "X"], renderer |-> "v2"],
      [schedule |-> EmptySchedule],
      [schedule |-> PostedSchedule] }

(***************************************************************************)
(* Start-up                                                                *)
(***************************************************************************)
Init ==
    /\ manager = FALSE
    /\ phase = "import"
    /\ config = NoDoc
    /\ storage \in InitialStorages
    /\ disk = "ok"
    /\ slot_frames = NoFrames
    /\ widgets = NoWidgets
    /\ op = NoOp
    /\ resp = NoResp
    /\ nops = 0
    /\ race = NoRace
    /\ discord_output = NoOutput

\* lines 1117..1120 and 297..309: manager = StreamSchedulerManager()
main ==
    /\ phase = "import"
    /\ manager' = TRUE
    /\ config' = load_config(storage)
    /\ slot_frames' = NoFrames
    /\ phase' = "started"
    /\ UNCHANGED <<discord_output, race, storage, disk, widgets, op, resp, nops>>

(***************************************************************************)
(* Discord message text.  A text is a sequence of atoms (strings); a       *)
(* placeholder token is one atom, and so is every value that is inserted   *)
(* whole (a title, a description, a link).                                  *)
(***************************************************************************)
\* the characters of a string joined into one atom
RECURSIVE Str(_)
Str(chars) == IF chars = <<>> THEN "" ELSE Head(chars) \o Str(Tail(chars))

\* text.replace(key, value): every occurrence of the token key becomes value
RECURSIVE Replace(_, _, _)
Replace(text, key, value) ==
    IF text = <<>> THEN <<>>
    ELSE (IF Head(text) = key THEN value ELSE <<Head(text)>>) \o Replace(Tail(text), key, value)

\* the replacements of a dict applied in insertion order (a sequence of <<key, value>>)
RECURSIVE ReplaceAll(_, _)
ReplaceAll(text, replacements) ==
    IF replacements = <<>> THEN text
    ELSE ReplaceAll(Replace(text, Head(replacements)[1], Head(replacements)[2]),
                    Tail(replacements))

\* "\n".join(lines), each line a text
RECURSIVE JoinLines(_)
JoinLines(lines) ==
    IF lines = <<>> THEN <<>>
    ELSE IF Len(lines) = 1 THEN lines[1]
    ELSE lines[1] \o <<"\n">> \o JoinLines(Tail(lines))

IsBlank(atom) == atom \in {"", " ", "\t", "\n"}

\* text.strip(): blank atoms dropped at both ends
RECURSIVE Strip(_)
Strip(text) ==
    IF text = <<>> THEN <<>>
    ELSE IF IsBlank(Head(text)) THEN Strip(Tail(text))
    ELSE IF IsBlank(text[Len(text)]) THEN Strip(SubSeq(text, 1, Len(text) - 1))
    ELSE text

\* the bullet character U+2022 that starts every schedule line
Bullet == "*"

\* the two backticks that open and close inline code
CodeMark == "''"

(***************************************************************************)
(* generate_discord_message                                                *)
(***************************************************************************)
\* str.capitalize() of a schedule type
Capitalize(type) ==
    CASE type = "normal" -> "Normal"
      [] type = "work" -> "Work"
      [] OTHER -> type

\* line 1035: the f-string of one slot
ScheduleLine(slot) ==
    << Bullet \o " **" \o Str(slot.time) \o "** - ", slot.title, ": ", slot.desc >>

\* the lines of the sequence of the type that is not the day's active one
format_schedule_of_inactive_type(cfg, day) ==
    JoinLines([i \in 1..Len(cfg.schedule[day][CHOOSE t \in Types : t # cfg.schedule[day].type])
                  |-> ScheduleLine(cfg.schedule[day][CHOOSE t \in Types :
                                                        t # cfg.schedule[day].type][i])])

\* lines 1028..1037
format_schedule_with_times(cfg, day) ==
    JoinLines([i \in 1..Len(ActiveSlots(cfg, day)) |-> ScheduleLine(ActiveSlots(cfg, day)[i])])

\* lines 995..1008: the placeholders and what replaces them, in the order of the dict
PlaceholderValues(cfg) ==
    << <<"{{link}}", <<cfg.channel.link>> >>,
       <<"{{channel}}", <<cfg.channel.name>> >>,
       <<"{{timezone}}", <<cfg.timezone>> >>,
       <<"{{today_type}}", <<Capitalize(cfg.schedule.today.type)>> >>,
       <<"{{tomorrow_type}}", <<Capitalize(cfg.schedule.tomorrow.type)>> >>,
       <<"{{schedule}}", format_schedule_with_times(cfg, "today")>>,
       <<"{{today_schedule}}", format_schedule_with_times(cfg, "today")>>,
       <<"{{tomorrow_schedule}}", format_schedule_with_times(cfg, "tomorrow")>> >>

\* lines 985..989: the template at the selected index, and the custom message for every
\* index past the last template
SelectedTemplate(cfg, template_idx) ==
    IF template_idx < Len(cfg.discord.templates)
    THEN cfg.discord.templates[template_idx + 1]
    ELSE cfg.discord.customMessage

\* lines 985..1016: the subscripts that raise KeyError
GenerateRaises(cfg, template_idx) ==
    \/ "discord" \notin DOMAIN cfg
    \/ "templates" \notin DOMAIN cfg.discord
    \/ (/\ template_idx >= Len(cfg.discord.templates)
        /\ "customMessage" \notin DOMAIN cfg.discord)
    \/ ~({"message", "title", "useTimestamp"}
            \subseteq DOMAIN SelectedTemplate(cfg, template_idx))
    \/ ~({"link", "name"} \subseteq DOMAIN cfg.channel)
    \/ "timezone" \notin DOMAIN cfg

\* lines 1014..1019: the timestamp of the moment `now` is put before the message
Stamped(template, message, use_timestamps, now) ==
    IF template.useTimestamp /\ use_timestamps
    THEN <<"<t:" \o Str(NatToStr(now)) \o ":" \o template.timestampFormat \o ">", "\n", "\n">>
         \o message
    ELSE message

\* line 1021
FullMessage(title, message) == <<"**">> \o title \o <<"**", "\n", "\n">> \o message

\* lines 991..1021
Rendered(cfg, template, use_timestamps, now) ==
    FullMessage(ReplaceAll(template.title, PlaceholderValues(cfg)),
                Stamped(template, ReplaceAll(template.message, PlaceholderValues(cfg)),
                        use_timestamps, now))

\* lines 982..1026: any exception is caught at line 1025 and shown in a dialog, and the
\* output box is left as it was
PrimaryGenerate(cfg, w, out, now) ==
    IF GenerateRaises(cfg, w.discord_template_var)
    THEN [result |-> "raised", output |-> [out EXCEPT !.error = TRUE]]
    ELSE [result |-> "done",
          output |-> [text |-> Rendered(cfg, SelectedTemplate(cfg, w.discord_template_var),
                                        w.use_timestamps, now),
                      error |-> FALSE,
                      today |-> <<>>,
                      tomorrow |-> <<>>]]

\* the readings of the clock at line 1017 when the program starts
StartTimes == {0}

\* create_gui reads config["channel"]["name"] and ["link"] (lines 718, 723) and the names
\* of config["discord"]["templates"] (line 914): a document without them raises KeyError,
\* and main() exits (lines 1127..1129)
GuiBuildable(cfg) ==
    /\ {"name", "link"} \subseteq DOMAIN cfg.channel
    /\ "discord" \in DOMAIN cfg
    /\ "templates" \in DOMAIN cfg.discord

\* lines 1087..1093: run builds the GUI (lines 587..688) and generates the first message
create_gui ==
    /\ phase = "started"
    /\ IF GuiBuildable(config)
       THEN /\ widgets' = WidgetsFor(config)
            /\ slot_frames' = [k \in FrameKeys |-> EditorsFor(Slots(config, k))]
            /\ phase' = "gui"
            /\ \E now \in StartTimes :
                  discord_output' =
                      PrimaryGenerate(config, WidgetsFor(config), discord_output, now).output
       ELSE /\ phase' = "exited"
            /\ UNCHANGED <<widgets, slot_frames, discord_output>>
    /\ UNCHANGED <<race, manager, config, storage, disk, op, resp, nops>>

(***************************************************************************)
(* The UI thread's handlers                                                *)
(***************************************************************************)
RemoveAt(seq, i) == SubSeq(seq, 1, i - 1) \o SubSeq(seq, i + 1, Len(seq))

Done(name, k, index, result, w) ==
    [name |-> name, key |-> k, index |-> index, result |-> result, write |-> w,
     data |-> NoDoc]

\* a served request and its JSON body
Served(name, data, w) ==
    [name |-> name, key |-> "", index |-> 0, result |-> "done", write |-> w, data |-> data]

\* the widgets w are set and the message g generated from them is shown
Generated(w, g) ==
    /\ phase = "gui"
    /\ widgets' = w
    /\ discord_output' = g.output
    /\ op' = Done("generate_discord_message", "", 0, g.result, "none")
    /\ UNCHANGED <<manager, phase, config, storage, disk, slot_frames, resp, nops, race>>

\* lines 982..1026, from the "Generate Message" button
generate_discord_message(now) ==
    Generated(widgets, PrimaryGenerate(config, widgets, discord_output, now))

\* lines 913..923: a template's radio button is chosen, which generates the message
select_template(template_idx, now) ==
    /\ template_idx < widgets.template_radios
    /\ template_idx # widgets.discord_template_var
    /\ Generated([widgets EXCEPT !.discord_template_var = template_idx],
                 PrimaryGenerate(config, [widgets EXCEPT !.discord_template_var = template_idx],
                                 discord_output, now))

\* lines 933..941: the checkbox; nothing is regenerated
toggle_discord_timestamps ==
    /\ phase = "gui"
    /\ widgets' = [widgets EXCEPT !.use_timestamps = ~@]
    /\ op' = Done("toggle_discord_timestamps", "", 0, "done", "none")
    /\ UNCHANGED <<manager, phase, config, storage, disk, slot_frames, resp, nops, race,
                   discord_output>>

\* lines 493..554
add_new_slot(k) ==
    LET slots == Slots(config, k)
        new_slot == NewSlot(slots)
        index == Len(slots)                       \* len(slots) - 1 after the append
    IN  /\ phase = "gui"
        /\ nops < MaxOps
        /\ config' = WithSlots(config, k, Append(slots, new_slot))
        /\ slot_frames' = [slot_frames EXCEPT
                               ![k] = Append(@, SlotEditorFrame(new_slot, index))]
        /\ storage' = StorageAfterSave(storage, config', disk)
        /\ op' = Done("add_new_slot", k, index, "done", disk)
        /\ nops' = nops + 1
        /\ UNCHANGED <<discord_output, race, manager, phase, disk, widgets, resp>>

\* the guard off by one: only an empty sequence refuses
MustKeepOnlyWhenEmpty(slots) == Len(slots) < 1

\* line 561: the guard that refuses the delete
MustKeep(slots) == Len(slots) <= 1

\* the remaining editors keep the index they had
NotRenumbered(frames) == frames

\* lines 575..576
Renumbered(frames) == [i \in 1..Len(frames) |-> [frames[i] EXCEPT !.slot_index = i - 1]]

\* lines 556..579, called by the delete button of the editor at position pos (line 247)
delete_slot(k, pos, confirm) ==
    LET slots == Slots(config, k)
        frames == slot_frames[k]
        index == frames[pos].slot_index
    IN  /\ phase = "gui"
        /\ nops < MaxOps
        /\ pos \in 1..Len(frames)
        /\ frames[pos].deletable
        /\ nops' = nops + 1
        /\ UNCHANGED <<discord_output, race, manager, phase, disk, widgets, resp>>
        /\ IF MustKeep(slots)
           THEN /\ op' = Done("delete_slot", k, index, "refused", "none")
                /\ UNCHANGED <<config, slot_frames, storage>>
           ELSE IF ~confirm
           THEN /\ op' = Done("delete_slot", k, index, "declined", "none")
                /\ UNCHANGED <<config, slot_frames, storage>>
           ELSE IF index >= Len(slots)             \* slots.pop(index): IndexError
           THEN /\ op' = Done("delete_slot", k, index, "raised", "none")
                /\ UNCHANGED <<config, slot_frames, storage>>
           ELSE IF index >= Len(frames)            \* slot_frames[key][index]: IndexError
           THEN /\ config' = WithSlots(config, k, RemoveAt(slots, index + 1))
                /\ op' = Done("delete_slot", k, index, "raised", "none")
                /\ UNCHANGED <<slot_frames, storage>>
           ELSE /\ config' = WithSlots(config, k, RemoveAt(slots, index + 1))
                /\ slot_frames' = [slot_frames EXCEPT
                                       ![k] = Renumbered(RemoveAt(frames, index + 1))]
                /\ storage' = StorageAfterSave(storage, config', disk)
                /\ op' = Done("delete_slot", k, index, "done", disk)

\* lines 581..585, reached through on_update (lines 479..480): the document after
\* config[...][index] = data, and whether the assignment raised IndexError
update_slot(cfg, k, index, data) ==
    IF index < Len(Slots(cfg, k))
    THEN [raised |-> FALSE, config |-> WithSlots(cfg, k, [Slots(cfg, k) EXCEPT ![index + 1] = data])]
    ELSE [raised |-> TRUE, config |-> cfg]

\* the editor at position pos of key k changes to frame and notifies update_slot
EditorChanged(name, k, pos, frame) ==
    LET r == update_slot(config, k, frame.slot_index, SlotData(frame))
    IN  /\ config' = r.config
        /\ slot_frames' = [slot_frames EXCEPT ![k][pos] = frame]
        /\ op' = Done(name, k, frame.slot_index, IF r.raised THEN "raised" ELSE "done", "none")
        /\ nops' = nops + 1
        /\ UNCHANGED <<discord_output, race, manager, phase, storage, disk, widgets, resp>>

\* lines 254..261 and 272..278: a start time chosen in the picker
edit_start_time(k, pos, new_time) ==
    /\ phase = "gui"
    /\ nops < MaxOps
    /\ pos \in 1..Len(slot_frames[k])
    /\ LET f == slot_frames[k][pos]
       IN  EditorChanged("edit_start_time", k, pos,
               [f EXCEPT !.start = new_time, !.time = FormatRange(new_time, f.end)])

\* lines 263..278: an end time chosen in the picker
edit_end_time(k, pos, new_time) ==
    /\ phase = "gui"
    /\ nops < MaxOps
    /\ pos \in 1..Len(slot_frames[k])
    /\ LET f == slot_frames[k][pos]
       IN  EditorChanged("edit_end_time", k, pos,
               [f EXCEPT !.end = new_time, !.time = FormatRange(f.start, new_time)])

\* lines 280..285: a key released in the title or the description entry
on_content_change(k, pos, title, desc) ==
    /\ phase = "gui"
    /\ nops < MaxOps
    /\ pos \in 1..Len(slot_frames[k])
    /\ LET f == slot_frames[k][pos]
       IN  /\ title # f.title \/ desc # f.desc
           /\ EditorChanged("on_content_change", k, pos,
                   [f EXCEPT !.title = title, !.desc = desc])

\* the user types in an entry or picks a radio button of the settings tabs
edit_widget(field, value) ==
    /\ phase = "gui"
    /\ nops < MaxOps
    /\ widgets[field] # value
    /\ widgets' = [widgets EXCEPT ![field] = value]
    /\ op' = Done("edit_widget", field, 0, "done", "none")
    /\ nops' = nops + 1
    /\ UNCHANGED <<discord_output, race, manager, phase, config, storage, disk, slot_frames, resp>>

\* lines 1055..1073: the assignments of save_all_changes, in order
SaveSteps ==
    <<"channel.name", "channel.link", "timezone", "theme", "exportScope",
      "today.type", "today.title", "tomorrow.type", "tomorrow.title",
      "today_normal", "today_work", "tomorrow_normal", "tomorrow_work">>

\* d[key] = value on a dict
SetItem(d, key, value) == [f \in DOMAIN d \cup {key} |-> IF f = key THEN value ELSE d[f]]

\* one assignment of lines 1055..1073, on the document as it is when it runs
SaveField(cfg, step, w, frames) ==
    CASE step = "channel.name" -> [cfg EXCEPT !.channel = SetItem(@, "name", w.name_entry)]
      [] step = "channel.link" -> [cfg EXCEPT !.channel = SetItem(@, "link", w.link_entry)]
      [] step = "timezone" -> SetItem(cfg, "timezone", w.timezone_entry)
      [] step = "theme" -> SetItem(cfg, "theme", w.theme_var)
      [] step = "exportScope" -> SetItem(cfg, "exportScope", w.export_scope)
      [] step = "today.type" -> [cfg EXCEPT !.schedule.today.type = w.today_type]
      [] step = "today.title" -> [cfg EXCEPT !.schedule.today.title = w.today_title_entry]
      [] step = "tomorrow.type" -> [cfg EXCEPT !.schedule.tomorrow.type = w.tomorrow_type]
      [] step = "tomorrow.title" ->
            [cfg EXCEPT !.schedule.tomorrow.title = w.tomorrow_title_entry]
      [] OTHER ->
            WithSlots(cfg, step, [i \in 1..Len(frames[step]) |-> get_slot_data(frames[step][i])])

\* the document after the first n assignments
RECURSIVE SaveFields(_, _, _, _)
SaveFields(cfg, n, w, frames) ==
    IF n = 0 THEN cfg
    ELSE SaveField(SaveFields(cfg, n - 1, w, frames), SaveSteps[n], w, frames)

\* lines 1055..1073: the document after copying every widget into it
ConfigFromGui(cfg, w, frames) == SaveFields(cfg, Len(SaveSteps), w, frames)

\* lines 1052..1078
save_all_changes ==
    /\ phase = "gui"
    /\ nops < MaxOps
    /\ config' = ConfigFromGui(config, widgets, slot_frames)
    /\ storage' = StorageAfterSave(storage, config', disk)
    /\ op' = Done("save_all_changes", "", 0,
                  IF save_config(config', disk) THEN "saved" ELSE "save_failed", disk)
    /\ nops' = nops + 1
    /\ UNCHANGED <<discord_output, race, manager, phase, disk, slot_frames, widgets, resp>>

\* lines 1080..1085: the widgets are not rebuilt
reload_configuration(confirm) ==
    /\ phase = "gui"
    /\ nops < MaxOps
    /\ config' = IF confirm THEN load_config(storage) ELSE config
    /\ op' = Done("reload_configuration", "", 0, IF confirm THEN "done" ELSE "declined", "none")
    /\ nops' = nops + 1
    /\ UNCHANGED <<discord_output, race, manager, phase, storage, disk, slot_frames, widgets, resp>>

(***************************************************************************)
(* The HTTP thread's routes                                                *)
(***************************************************************************)
NotInitialized == [status |-> 500, body |-> [error |-> "Manager not initialized"]]

\* a deep merge: a posted channel object is merged into the stored one, key by key
UpdateDeep(cfg, data) ==
    [f \in DOMAIN cfg \cup DOMAIN data |->
        IF f \notin DOMAIN data THEN cfg[f]
        ELSE IF f = "channel" /\ f \in DOMAIN cfg
        THEN [g \in DOMAIN cfg[f] \cup DOMAIN data[f] |->
                 IF g \in DOMAIN data[f] THEN data[f][g] ELSE cfg[f][g]]
        ELSE data[f]]

\* dict.update(data)
Update(cfg, data) ==
    [f \in DOMAIN cfg \cup DOMAIN data |-> IF f \in DOMAIN data THEN data[f] ELSE cfg[f]]

\* the route without its guard: whatever manager.config holds is returned with 200
get_config_unguarded ==
    /\ phase # "exited"
    /\ nops < MaxOps
    /\ resp' = [status |-> 200, body |-> config]
    /\ op' = Done("get_config", "", 0, "done", "none")
    /\ nops' = nops + 1
    /\ UNCHANGED <<discord_output, race, manager, phase, config, storage, disk, slot_frames, widgets>>

\* lines 1099..1104
get_config ==
    /\ phase # "exited"
    /\ nops < MaxOps
    /\ resp' = IF manager THEN [status |-> 200, body |-> config] ELSE NotInitialized
    /\ op' = Done("get_config", "", 0, "done", "none")
    /\ nops' = nops + 1
    /\ UNCHANGED <<discord_output, race, manager, phase, config, storage, disk, slot_frames, widgets>>

\* lines 1106..1114
update_config(data) ==
    /\ phase # "exited"
    /\ nops < MaxOps
    /\ nops' = nops + 1
    /\ UNCHANGED <<discord_output, race, manager, phase, disk, slot_frames, widgets>>
    /\ IF manager
       THEN /\ config' = Update(config, data)
            /\ storage' = StorageAfterSave(storage, config', disk)
            /\ resp' = [status |-> 200, body |-> [status |-> "success", config |-> config']]
            /\ op' = Served("update_config", data, disk)
       ELSE /\ resp' = NotInitialized
            /\ op' = Served("update_config", data, "none")
            /\ UNCHANGED <<config, storage>>

\* the environment: config.json becomes read-only, the disk fills up, or it recovers
disk_changes(mode) ==
    /\ nops < MaxOps
    /\ mode # disk
    /\ disk' = mode
    /\ op' = Done("disk_changes", "", 0, "done", "none")
    /\ nops' = nops + 1
    /\ UNCHANGED <<discord_output, race, manager, phase, config, storage, slot_frames, widgets, resp>>

Next ==
    \/ main
    \/ create_gui
    \/ \E k \in FrameKeys : add_new_slot(k)
    \/ \E k \in FrameKeys : \E pos \in 1..Len(slot_frames[k]), confirm \in BOOLEAN :
          delete_slot(k, pos, confirm)
    \/ \E k \in FrameKeys : \E pos \in 1..Len(slot_frames[k]), t \in PickerTimes :
          edit_start_time(k, pos, t)
    \/ \E k \in FrameKeys : \E pos \in 1..Len(slot_frames[k]), t \in PickerTimes :
          edit_end_time(k, pos, t)
    \/ \E k \in FrameKeys : \E pos \in 1..Len(slot_frames[k]), t \in EntryTexts :
          on_content_change(k, pos, t, slot_frames[k][pos].desc)
    \/ \E f \in {"today_type", "tomorrow_type"}, v \in Types : edit_widget(f, v)
    \/ \E f \in {"name_entry"}, v \in EntryTexts : edit_widget(f, v)
    \/ save_all_changes
    \/ \E confirm \in BOOLEAN : reload_configuration(confirm)
    \/ get_config
    \/ \E data \in PostBodies : update_config(data)
    \/ \E mode \in DiskModes : disk_changes(mode)

Spec == Init /\ [][Next]_vars

(***************************************************************************)
(* Claims about the document, the slot editors and the routes              *)
(***************************************************************************)
\* this step is the operation called name
Step(name) == op'.name = name /\ nops' = nops + 1

Persisted == storage.state = "ok" /\ storage.doc = ToJson(config)

\* C1: once a document is loaded, the active slot sequence of today and of tomorrow
\* holds at least one slot in every reachable state.
C1_ActiveSequenceNeverEmpty ==
    manager => \A d \in Days : Len(ActiveSlots(config, d)) >= 1

\* C2: delete_slot on a sequence that holds exactly one slot is refused and leaves the
\* slot sequence, the editors and the persisted document as they were.
C2_SoleSlotDeleteRefused ==
    [][(Step("delete_slot") /\ Len(Slots(config, op'.key)) = 1) =>
           /\ op'.result = "refused"
           /\ config' = config
           /\ slot_frames' = slot_frames
           /\ storage' = storage]_vars

\* C2 witness: a delete button was pressed on a sequence of one slot and was refused
C2_Witness ==
    /\ op.name = "delete_slot"
    /\ op.result = "refused"
    /\ Len(Slots(config, op.key)) = 1

\* C3: POST /api/config on an initialized manager replaces every top-level key of the
\* body by the posted value, whole, keeps every other key, and the GET that follows
\* returns that document.
C3_PostIsShallowMerge ==
    [][/\ (Step("update_config") /\ manager) =>
            /\ DOMAIN config' = DOMAIN config \cup DOMAIN op'.data
            /\ \A f \in DOMAIN config' :
                  config'[f] = IF f \in DOMAIN op'.data THEN op'.data[f] ELSE config[f]
       /\ (Step("get_config") /\ op.name = "update_config" /\ manager) =>
            resp' = [status |-> 200, body |-> config]]_vars

\* C3 witness: a GET after a POST of {"channel": {"name": "X"}, ...} returns a channel
\* without its link
C3_Witness ==
    /\ op.name = "get_config"
    /\ resp.status = 200
    /\ resp.body.channel = [name |-> "X"]

\* C4: whenever POST /api/config answers 200, config.json holds the merged document.
C4_PostSuccessMeansPersisted ==
    (op.name = "update_config" /\ resp.status = 200) => Persisted

\* C5: GET /api/config answers 500 {"error": "Manager not initialized"} exactly when no
\* manager exists, otherwise 200 with the in-memory document, and changes nothing.
C5_GetReportsUninitialized ==
    [][Step("get_config") =>
           /\ ~manager => resp' = [status |-> 500, body |-> [error |-> "Manager not initialized"]]
           /\ manager => resp' = [status |-> 200, body |-> config]
           /\ UNCHANGED <<manager, config, storage, slot_frames, widgets>>]_vars

\* C5 witness: a GET was answered before main() built the manager
C5_Witness == op.name = "get_config" /\ ~manager /\ resp.status = 500

\* config.json at start-up: missing (the default document, with 4 and 2 slots), the
\* stored document, and a document with empty slot sequences
EditStorages ==
    { [state |-> "absent", doc |-> NoDoc],
      [state |-> "ok", doc |-> ToJson(StoredConfig)],
      [state |-> "ok", doc |-> ToJson([StoredConfig EXCEPT !.schedule = EmptySchedule])] }

InitEdit ==
    /\ manager = FALSE
    /\ phase = "import"
    /\ config = NoDoc
    /\ storage \in EditStorages
    /\ disk = "ok"
    /\ slot_frames = NoFrames
    /\ widgets = NoWidgets
    /\ op = NoOp
    /\ resp = NoResp
    /\ nops = 0
    /\ race = NoRace
    /\ discord_output = NoOutput

\* the Tk thread alone, adding and deleting slots: no request is served
NextEdit ==
    \/ main
    \/ create_gui
    \/ \E k \in FrameKeys : add_new_slot(k)
    \/ \E k \in FrameKeys : \E pos \in 1..Len(slot_frames[k]), confirm \in BOOLEAN :
          delete_slot(k, pos, confirm)

SpecEdit == InitEdit /\ [][NextEdit]_vars

\* C21: through UI editing a delete action is offered only by slot editors above index 0
\* (the first editor of a sequence never has one), and no add_new_slot or delete_slot
\* step removes or replaces the slot at index 0 of its sequence.
C21_FirstSlotNeverDeleted ==
    [][/\ \A k \in FrameKeys : \A pos \in 1..Len(slot_frames'[k]) :
              slot_frames'[k][pos].deletable => (pos > 1 /\ slot_frames'[k][pos].slot_index > 0)
       /\ ((Step("add_new_slot") \/ Step("delete_slot")) /\ Len(Slots(config, op'.key)) >= 1)
              => /\ Len(Slots(config', op'.key)) >= 1
                 /\ Slots(config', op'.key)[1] = Slots(config, op'.key)[1]]_vars

\* slots were deleted one after the other: the editor list still starts with an editor
\* that has no delete button, followed by one that has
C21_Witness ==
    /\ op.name = "delete_slot"
    /\ op.result = "done"
    /\ nops >= 2
    /\ Len(slot_frames[op.key]) >= 2
    /\ ~slot_frames[op.key][1].deletable
    /\ slot_frames[op.key][2].deletable

\* C26: in every state of the running GUI, for each of the four (day, type) keys the
\* list of slot editors has the length of the document's slot sequence and the editor at
\* position i carries slot_index i, so a delete issued from an editor removes that
\* editor's own slot and never indexes out of range
C26_EditorsInLockstep ==
    phase = "gui" =>
        /\ \A k \in FrameKeys :
              /\ Len(slot_frames[k]) = Len(Slots(config, k))
              /\ \A pos \in 1..Len(slot_frames[k]) : slot_frames[k][pos].slot_index = pos - 1
        /\ op.result # "raised"

\* the last operation was a confirmed reload
Reloaded == op.name = "reload_configuration" /\ op.result = "done"

\* a confirmed reload makes the in-memory document the persisted one (a legacy mapping of
\* slots read as a sequence), and a declined reload leaves it as it was
ReloadDiscards ==
    Step("reload_configuration") =>
        IF op'.result = "done"
        THEN (storage.state = "ok" /\ HasSlotLists(storage.doc)) => config' = FromJson(storage.doc)
        ELSE config' = config

\* C27: after a confirmed reload the in-memory document equals the persisted document,
\* and a save_all_changes issued next, with no edit in between, persists that reloaded
\* document and not the values the editors held before the reload; a declined reload
\* leaves the in-memory document unchanged
C27_ReloadDiscardsUnsaved ==
    [][/\ ReloadDiscards
       /\ (Reloaded /\ Step("save_all_changes") /\ op'.result = "saved")
              => (config' = config /\ Persisted')]_vars

\* the sequence without its element at index i (counted from 0)
Without_i(seq, i) == [j \in 1..(Len(seq) - 1) |-> IF j <= i THEN seq[j] ELSE seq[j + 1]]

\* everything of the document but the sequence of key k is as it was
OnlySequenceChanged(k) ==
    /\ \A f \in DOMAIN config \ {"schedule"} : f \in DOMAIN config' /\ config'[f] = config[f]
    /\ DOMAIN config' = DOMAIN config
    /\ \A other \in FrameKeys \ {k} :
          /\ Slots(config', other) = Slots(config, other)
          /\ slot_frames'[other] = slot_frames[other]
    /\ \A day \in Days :
          /\ config'.schedule[day].type = config.schedule[day].type
          /\ config'.schedule[day].title = config.schedule[day].title

OnlyLastTime(slots) ==
    IF slots = <<>> THEN <<>>
    ELSE <<[time |-> slots[Len(slots)].time, title |-> "", desc |-> ""]>>

\* C29: add_new_slot on (day, type) appends exactly one slot at the end of that sequence
\* and leaves the existing slots of the sequence, the other three sequences, the day's
\* active type and all non-schedule fields unchanged; the new slot's time depends only on
\* the time field of the previously last slot
C29_AddAppendsOneSlot ==
    [][Step("add_new_slot") =>
          /\ Len(Slots(config', op'.key)) = Len(Slots(config, op'.key)) + 1
          /\ SubSeq(Slots(config', op'.key), 1, Len(Slots(config, op'.key)))
                = Slots(config, op'.key)
          /\ Slots(config', op'.key)[Len(Slots(config', op'.key))]
                = NewSlot(OnlyLastTime(Slots(config, op'.key)))
          /\ op'.index = Len(Slots(config, op'.key))
          /\ OnlySequenceChanged(op'.key)]_vars

\* a slot was added to a sequence whose slots had been changed before
C29_Witness ==
    /\ op.name = "add_new_slot"
    /\ op.result = "done"
    /\ nops >= 2
    /\ Len(Slots(config, op.key)) >= 2
    /\ Slots(config, op.key)[Len(Slots(config, op.key))] =
          NewSlot(OnlyLastTime(SubSeq(Slots(config, op.key), 1, Len(Slots(config, op.key)) - 1)))
    /\ Slots(config, op.key)[Len(Slots(config, op.key)) - 1].title \in EntryTexts

\* the handlers that end in update_slot and nothing else
SlotEdits == {"edit_start_time", "edit_end_time", "on_content_change"}

\* the handlers that change the slot sequence and save at once
SlotSaves == {"add_new_slot", "delete_slot"}

\* C20: after each add_new_slot and each confirmed delete_slot that completes with a
\* successful write, the persisted document equals the entire in-memory document,
\* slot edits made earlier and not yet saved included; update_slot alone never changes
\* the persisted document.
C20_WholeDocumentAtSavePoints ==
    [][/\ (/\ \E name \in SlotSaves : Step(name)
           /\ op'.result = "done"
           /\ save_config(config', op'.write)) => Persisted'
       /\ (\E name \in SlotEdits : Step(name)) => storage' = storage]_vars

\* one edit of a title, then add_new_slot: the edit is in the persisted document
C20_Witness ==
    /\ op.name = "add_new_slot"
    /\ op.result = "done"
    /\ op.write = "ok"
    /\ nops = 2
    /\ Persisted
    /\ \E k \in FrameKeys : \E i \in 1..Len(Slots(config, k)) :
          /\ Slots(config, k)[i].title \in EntryTexts
          /\ storage.doc.schedule[KeyDay[k]][KeyType[k]].items[i].title \in EntryTexts

(***************************************************************************)
(* add_new_slot on its own: the last slot's time ranges over every end     *)
(* time of the 12-hour clock and over times that do not have that form     *)
(***************************************************************************)
MaxHour == 12
MaxMinute == 59

ClockTimes == [hour : 1..MaxHour, minute : 0..MaxMinute, ampm : {AM, PM}]

FormatClock(c) == FormatTime(c.hour, c.minute, c.ampm)

UnparsedTimes ==
    {
      <<"T", "B", "D">>,   \* "TBD": missing separator
      <<"9", ":", "0", "0", " ", "A", "M", " ", "-", " ", "1", "0", ":", "0", "0", " ", "A", "M", " ", "-", " ", "1", "1", ":", "0", "0", " ", "A", "M">>,   \* "9:00 AM - 10:00 AM - 11:00 AM": extra separator
      <<"9", ":", "0", "0", " ", "A", "M", "-", "5", ":", "0", "0", " ", "P", "M">>,   \* "9:00 AM-5:00 PM": dash without spaces
      <<"9", ":", "0", "0", " ", "A", "M", " ", "-", " ", "X", "X", ":", "0", "0", " ", "P", "M">>,   \* "9:00 AM - XX:00 PM": non-numeric hour
      <<"9", ":", "0", "0", " ", "A", "M", " ", "-", " ", "5", ":", "X", "X", " ", "P", "M">>,   \* "9:00 AM - 5:XX PM": non-numeric minute
      <<"9", ":", "0", "0", " ", "A", "M", " ", "-", " ", "5", " ", "P", "M">>,   \* "9:00 AM - 5 PM": no colon
      <<"9", ":", "0", "0", " ", "A", "M", " ", "-", " ", "5", ":", "0", "0">>,   \* "9:00 AM - 5:00": missing meridiem
      <<"9", ":", "0", "0", " ", "A", "M", " ", "-", " ">>,   \* "9:00 AM - ": empty end
      <<"9", ":", "0", "0", " ", "A", "M", " ", "-", " ", "1", "3", ":", "0", "0", " ", "P", "M">>,   \* "9:00 AM - 13:00 PM": hour 13
      <<"9", ":", "0", "0", " ", "A", "M", " ", "-", " ", "0", ":", "1", "5", " ", "A", "M">>,   \* "9:00 AM - 0:15 AM": hour 0
      <<"9", ":", "0", "0", " ", "A", "M", " ", "-", " ", "5", ":", "7", "5", " ", "P", "M">>,   \* "9:00 AM - 5:75 PM": minute 75
      <<"9", ":", "0", "0", " ", "A", "M", " ", "-", " ", "5", ":", "0", "0", " ", "X", "M">>,   \* "9:00 AM - 5:00 XM": meridiem XM
      <<"9", ":", "0", "0", " ", "A", "M", " ", "-", " ", "-", "3", ":", "0", "0", " ", "P", "M">>   \* "9:00 AM - -3:00 PM": negative hour
    }

DeriveStart == FormatTime(9, 0, AM)

DeriveInputs ==
    {<<>>}
    \cup {<<Slot(FormatRange(DeriveStart, FormatClock(c)), "Last", "last desc")>> : c \in ClockTimes}
    \cup {<<Slot(t, "Last", "last desc")>> : t \in UnparsedTimes}

DeriveConfig(slots) == [StoredConfig EXCEPT !.schedule.today.normal = slots]

InitDerive ==
    /\ manager = TRUE
    /\ phase = "gui"
    /\ \E slots \in DeriveInputs :
          /\ config = DeriveConfig(slots)
          /\ storage = [state |-> "ok", doc |-> ToJson(DeriveConfig(slots))]
          /\ slot_frames = [k \in FrameKeys |-> EditorsFor(Slots(DeriveConfig(slots), k))]
          /\ widgets = WidgetsFor(DeriveConfig(slots))
    /\ disk = "ok"
    /\ op = NoOp
    /\ resp = NoResp
    /\ nops = 0
    /\ race = NoRace
    /\ discord_output = NoOutput

NextDerive == add_new_slot("today_normal")

SpecDerive == InitDerive /\ [][NextDerive]_vars

(***************************************************************************)
(* Claims about the derived slot                                           *)
(***************************************************************************)
\* minutes since midnight of a 12-hour clock time
Minutes24(c) == ((c.hour % 12) + (IF c.ampm = PM THEN 12 ELSE 0)) * 60 + c.minute

\* the 12-hour clock time of a number of minutes since midnight
Clock12(mins) ==
    LET h24 == mins \div 60
    IN  [hour |-> IF h24 % 12 = 0 THEN 12 ELSE h24 % 12,
         minute |-> mins % 60,
         ampm |-> IF h24 < 12 THEN AM ELSE PM]

ClockPlus(c, delta) == Clock12((Minutes24(c) + delta) % (24 * 60))

IsClock(t) == \E c \in ClockTimes : FormatClock(c) = t

ClockOf(t) == CHOOSE c \in ClockTimes : FormatClock(c) = t

\* the time is "<start> - <end>" and <end> is a time of the 12-hour clock
EndIsClock(time) ==
    LET parts == SplitOn(time, RangeSep)
    IN  Len(parts) = 2 /\ IsClock(parts[2])

EndClock(time) == ClockOf(SplitOn(time, RangeSep)[2])

\* the last operation was add_new_slot on a sequence that was not empty
AddedToNonEmpty == op.name = "add_new_slot" /\ Len(Slots(config, op.key)) >= 2

\* the slot the new one was derived from, and the new one
PrevSlot == Slots(config, op.key)[Len(Slots(config, op.key)) - 1]
AddedSlot == Slots(config, op.key)[Len(Slots(config, op.key))]

\* C7: after add_new_slot on a sequence whose last slot ends at a time of the 12-hour
\* clock, the new slot's end is its own start plus 3 hours, counted in minutes since
\* midnight modulo 1440, the minute unchanged.
C7_EndIsStartPlusThreeHours ==
    (AddedToNonEmpty /\ EndIsClock(PrevSlot.time)) =>
        LET parts == SplitOn(AddedSlot.time, RangeSep)
        IN  /\ Len(parts) = 2
            /\ IsClock(parts[1])
            /\ parts[2] = FormatClock(ClockPlus(ClockOf(parts[1]), 3 * 60))

\* C8: after add_new_slot on a sequence whose last slot ends at a time of the 12-hour
\* clock, the new slot starts 30 minutes after that end on the 12-hour clock.
C8_StartIsEndPlusThirtyMinutes ==
    (AddedToNonEmpty /\ EndIsClock(PrevSlot.time)) =>
        LET parts == SplitOn(AddedSlot.time, RangeSep)
        IN  /\ Len(parts) = 2
            /\ parts[1] = FormatClock(ClockPlus(EndClock(PrevSlot.time), 30))

\* C8 witness: a slot was derived from one ending at "12:00 AM" and starts at "12:30 AM"
C8_Witness ==
    /\ AddedToNonEmpty
    /\ EndIsClock(PrevSlot.time)
    /\ SplitOn(PrevSlot.time, RangeSep)[2] = <<"1", "2", ":", "0", "0", " ", "A", "M">>
    /\ SplitOn(AddedSlot.time, RangeSep)[1] = <<"1", "2", ":", "3", "0", " ", "A", "M">>

\* C9: after add_new_slot on a sequence whose last slot's time is not "<start> - <end>"
\* with <end> a time of the 12-hour clock, the new slot is "2:00 PM - 5:00 PM" with the
\* default title and description.
C9_UnparsedEndFallsBack ==
    (AddedToNonEmpty /\ ~EndIsClock(PrevSlot.time)) =>
        AddedSlot = [time |-> <<"2", ":", "0", "0", " ", "P", "M", " ", "-", " ",
                                "5", ":", "0", "0", " ", "P", "M">>,
                     title |-> "New Stream Session",
                     desc |-> "Description of this stream session"]

\* C10: add_new_slot on an empty sequence appends exactly the slot "9:30 AM - 12:30 PM",
\* "New Stream Session", "Description of this stream session".
C10_EmptySequenceDefault ==
    (op.name = "add_new_slot" /\ Len(Slots(config, op.key)) = 1) =>
        AddedSlot = [time |-> <<"9", ":", "3", "0", " ", "A", "M", " ", "-", " ",
                                "1", "2", ":", "3", "0", " ", "P", "M">>,
                     title |-> "New Stream Session",
                     desc |-> "Description of this stream session"]

\* C10 witness: add_new_slot has run on an empty sequence
C10_Witness == op.name = "add_new_slot" /\ Len(Slots(config, op.key)) = 1


\* a slot time made of two clock times H:MM AM|PM
IsClockRange(time) ==
    LET parts == SplitOn(time, RangeSep)
    IN  Len(parts) = 2 /\ IsClock(parts[1]) /\ IsClock(parts[2])

\* every slot time of the sequence is "H:MM AM|PM - H:MM AM|PM" with hours in 1..12 and
\* minutes in 0..59
HasClockForm(t, hour_text, ampm) ==
    /\ Len(t) = Len(hour_text) + 6
    /\ SubSeq(t, 1, Len(hour_text)) = hour_text
    /\ t[Len(hour_text) + 1] = ":"
    /\ IsDigit(t[Len(hour_text) + 2])
    /\ IsDigit(t[Len(hour_text) + 3])
    /\ DigitVal(t[Len(hour_text) + 2]) * 10 + DigitVal(t[Len(hour_text) + 3]) <= MaxMinute
    /\ SubSeq(t, Len(hour_text) + 4, Len(t)) = <<" ">> \o ampm

\* "H:MM AM" or "H:MM PM" with H in 1..12 written without a leading zero and MM in 00..59
IsClockText(t) == \E h \in 1..MaxHour, ampm \in {AM, PM} : HasClockForm(t, NatToStr(h), ampm)

HasRangeForm(parts) == Len(parts) = 2 /\ IsClockText(parts[1]) /\ IsClockText(parts[2])

WellFormedTimes(slots) ==
    \A i \in 1..Len(slots) : HasRangeForm(SplitOn(slots[i].time, RangeSep))

\* C30: if every slot time of a sequence has the form "H:MM AM|PM - H:MM AM|PM" with
\* hours in 1..12 and minutes in 0..59, then after add_new_slot every slot time of the
\* sequence, the newly derived start and end included, still has that form
C30_WellFormedClosedUnderAdd ==
    [][(Step("add_new_slot") /\ WellFormedTimes(Slots(config, op'.key)))
          => WellFormedTimes(Slots(config', op'.key))]_vars

\* three slots were derived one after the other, the first from a well-formed time
C30_Witness ==
    /\ op.name = "add_new_slot"
    /\ nops = 3
    /\ Len(Slots(config, op.key)) = 4
    /\ WellFormedTimes(Slots(config, op.key))
    /\ Slots(config, op.key)[1].title = "Last"

(***************************************************************************)
(* One UI handler racing one POST /api/config.  The Flask server runs in   *)
(* its own thread (lines 417..424) and shares manager.config and           *)
(* config.json with the Tk thread under no lock; each thread advances one  *)
(* statement at a time.  save_config is three steps: open(..., 'w')        *)
(* truncates the file, json.dump serialises the document into the file     *)
(* object's buffer, and leaving the with block flushes the buffer.         *)
(***************************************************************************)
\* config.json right after open(..., 'w'): truncated, not yet written
Truncated == [state |-> "empty", doc |-> NoDoc]

\* the file after a buffer is flushed at offset 0.  Over an empty file, or over the same
\* text, the file holds the buffer; over another text it holds the buffer if that is the
\* longer one, and the buffer followed by the rest of the other text otherwise
Flushed(st, buf) ==
    IF st.state = "empty" \/ st = [state |-> "ok", doc |-> buf]
    THEN {[state |-> "ok", doc |-> buf]}
    ELSE {[state |-> "ok", doc |-> buf], [state |-> "corrupt", doc |-> NoDoc]}

UiHandlers ==
    {[ui |-> "add_new_slot", key |-> k, pos |-> 0] : k \in FrameKeys}
    \cup {[ui |-> "delete_slot", key |-> "tomorrow_work", pos |-> 2],
          [ui |-> "save_all_changes", key |-> "", pos |-> 0]}

\* the widgets after the user retyped the channel name and switched both day types
EditedWidgets ==
    [WidgetsFor(StoredConfig) EXCEPT
        !.name_entry = "Edited", !.today_type = "work", !.tomorrow_type = "normal"]

InitRace ==
    /\ manager = TRUE
    /\ phase = "gui"
    /\ config = StoredConfig
    /\ storage = [state |-> "ok", doc |-> ToJson(StoredConfig)]
    /\ disk = "ok"
    /\ slot_frames = [k \in FrameKeys |-> EditorsFor(Slots(StoredConfig, k))]
    /\ widgets = EditedWidgets
    /\ op = NoOp
    /\ resp = NoResp
    /\ nops = 0
    /\ discord_output = NoOutput
    /\ \E h \in UiHandlers, data \in PostBodies :
          race = [NoRace EXCEPT !.ui = h.ui, !.key = h.key, !.pos = h.pos,
                                !.upc = "start", !.data = data, !.hpc = "update"]

RaceFrame == UNCHANGED <<manager, phase, disk, widgets, op, nops, discord_output>>

\* lines 496..545: slots is bound to the list in the document and the new slot is built
ui_add_begin ==
    /\ race.ui = "add_new_slot" /\ race.upc = "start"
    /\ race' = [race EXCEPT !.upc = "append", !.stale = FALSE,
                            !.unew = NewSlot(Slots(config, race.key)),
                            !.uindex = Len(Slots(config, race.key))]
    /\ UNCHANGED <<config, storage, slot_frames, resp>>
    /\ RaceFrame

\* line 547: slots.append(new_slot), on the list bound at line 496.  If the POST has
\* replaced config["schedule"] since, that list is no longer part of the document
ui_add_append ==
    /\ race.ui = "add_new_slot" /\ race.upc = "append"
    /\ config' = IF race.stale THEN config
                 ELSE WithSlots(config, race.key, Append(Slots(config, race.key), race.unew))
    /\ race' = [race EXCEPT !.upc = "editor"]
    /\ UNCHANGED <<storage, slot_frames, resp>>
    /\ RaceFrame

\* lines 550..551: the editor of the new slot
ui_add_editor ==
    /\ race.ui = "add_new_slot" /\ race.upc = "editor"
    /\ slot_frames' = [slot_frames EXCEPT
                           ![race.key] = Append(@, SlotEditorFrame(race.unew, race.uindex))]
    /\ race' = [race EXCEPT !.upc = "open"]
    /\ UNCHANGED <<config, storage, resp>>
    /\ RaceFrame

\* lines 558..567: slots is bound, the guard runs, and the confirmation dialog runs its
\* own event loop until the user answers yes
ui_delete_begin ==
    /\ race.ui = "delete_slot" /\ race.upc = "start"
    /\ race.pos \in 1..Len(slot_frames[race.key])
    /\ slot_frames[race.key][race.pos].deletable
    /\ race' = IF MustKeep(Slots(config, race.key))
               THEN [race EXCEPT !.upc = "done", !.last = "ui"]
               ELSE [race EXCEPT !.upc = "pop", !.stale = FALSE,
                                 !.uindex = slot_frames[race.key][race.pos].slot_index]
    /\ UNCHANGED <<config, storage, slot_frames, resp>>
    /\ RaceFrame

\* line 569: slots.pop(index), on the list bound at line 558
ui_delete_pop ==
    /\ race.ui = "delete_slot" /\ race.upc = "pop"
    /\ config' = IF race.stale THEN config
                 ELSE WithSlots(config, race.key,
                                RemoveAt(Slots(config, race.key), race.uindex + 1))
    /\ race' = [race EXCEPT !.upc = "frames"]
    /\ UNCHANGED <<storage, slot_frames, resp>>
    /\ RaceFrame

\* lines 570..576: the editor is destroyed and the others are renumbered
ui_delete_frames ==
    /\ race.ui = "delete_slot" /\ race.upc = "frames"
    /\ slot_frames' = [slot_frames EXCEPT
                           ![race.key] = Renumbered(RemoveAt(@, race.uindex + 1))]
    /\ race' = [race EXCEPT !.upc = "open"]
    /\ UNCHANGED <<config, storage, resp>>
    /\ RaceFrame

\* lines 1055..1073: the next assignment of save_all_changes
ui_save_field ==
    /\ race.ui = "save_all_changes"
    /\ race.upc \in {"start", "field"}
    /\ race.ustep < Len(SaveSteps)
    /\ config' = SaveField(config, SaveSteps[race.ustep + 1], widgets, slot_frames)
    /\ race' = [race EXCEPT !.ustep = @ + 1,
                            !.upc = IF race.ustep + 1 = Len(SaveSteps) THEN "open" ELSE "field"]
    /\ UNCHANGED <<storage, slot_frames, resp>>
    /\ RaceFrame

\* line 411, from the Tk thread: open(self.config_path, 'w')
ui_open ==
    /\ race.upc = "open"
    /\ storage' = Truncated
    /\ race' = [race EXCEPT !.upc = "dump"]
    /\ UNCHANGED <<config, slot_frames, resp>>
    /\ RaceFrame

\* line 412, from the Tk thread: json.dump(self.config, f, indent=2)
ui_dump ==
    /\ race.upc = "dump"
    /\ race' = [race EXCEPT !.upc = "close", !.ubuf = ToJson(config)]
    /\ UNCHANGED <<config, storage, slot_frames, resp>>
    /\ RaceFrame

\* line 411, from the Tk thread: the with block ends and the buffer reaches the file
ui_close ==
    /\ race.upc = "close"
    /\ storage' \in Flushed(storage, race.ubuf)
    /\ race' = [race EXCEPT !.upc = "done", !.last = "ui"]
    /\ UNCHANGED <<config, slot_frames, resp>>
    /\ RaceFrame

\* line 1112: manager.config.update(data).  A posted "schedule" replaces the object that
\* holds the slot lists, so a list a handler bound before is detached from the document
http_update ==
    /\ race.ui # "none" /\ race.hpc = "update"
    /\ config' = Update(config, race.data)
    /\ race' = [race EXCEPT !.hpc = "open",
                            !.stale = IF "schedule" \in DOMAIN race.data
                                         /\ race.upc \in {"append", "pop"}
                                      THEN TRUE ELSE @]
    /\ UNCHANGED <<storage, slot_frames, resp>>
    /\ RaceFrame

\* line 411, from the Flask thread
http_open ==
    /\ race.hpc = "open"
    /\ storage' = Truncated
    /\ race' = [race EXCEPT !.hpc = "dump"]
    /\ UNCHANGED <<config, slot_frames, resp>>
    /\ RaceFrame

\* line 412, from the Flask thread
http_dump ==
    /\ race.hpc = "dump"
    /\ race' = [race EXCEPT !.hpc = "close", !.hbuf = ToJson(config)]
    /\ UNCHANGED <<config, storage, slot_frames, resp>>
    /\ RaceFrame

\* lines 411 and 1114, from the Flask thread: the file is written and the reply is built
http_close ==
    /\ race.hpc = "close"
    /\ storage' \in Flushed(storage, race.hbuf)
    /\ resp' = [status |-> 200, body |-> [status |-> "success", config |-> config]]
    /\ race' = [race EXCEPT !.hpc = "done", !.last = "http"]
    /\ UNCHANGED <<config, slot_frames>>
    /\ RaceFrame

NextRace ==
    \/ ui_add_begin
    \/ ui_add_append
    \/ ui_add_editor
    \/ ui_delete_begin
    \/ ui_delete_pop
    \/ ui_delete_frames
    \/ ui_save_field
    \/ ui_open
    \/ ui_dump
    \/ ui_close
    \/ http_update
    \/ http_open
    \/ http_dump
    \/ http_close

SpecRace == InitRace /\ [][NextRace]_vars

(***************************************************************************)
(* Claim about the race                                                    *)
(***************************************************************************)
\* both the handler and the request have returned
RaceDone == race.ui # "none" /\ race.upc = "done" /\ race.hpc = "done"

\* the slot add_new_slot appended is in the document, at the index its editor was given
AppendKept ==
    /\ race.uindex < Len(Slots(config, race.key))
    /\ Slots(config, race.key)[race.uindex + 1] = race.unew

\* C6: when a UI mutation and a POST /api/config run concurrently, then once both have
\* completed config.json holds the in-memory document, and no write of the operation that
\* completed last is lost: a slot appended by an add_new_slot that returned last is in
\* the document
C6_RaceIsBenign ==
    RaceDone =>
        /\ Persisted
        /\ (race.last = "ui" /\ race.ui = "add_new_slot") => AppendKept

(***************************************************************************)
(* src/deprecated_python: the message generator that renders Discord       *)
(* timestamps.  Dates are counted in days from today (0 today, 1 tomorrow, *)
(* 2 the day after) and instants in seconds from today's local midnight.   *)
(***************************************************************************)
NoTime == [ok |-> FALSE, hours |-> 0, minutes |-> 0]

\* the number of decimal digits s starts with
RECURSIVE LeadingDigits(_)
LeadingDigits(s) ==
    IF Len(s) > 0 /\ IsDigit(s[1]) THEN 1 + LeadingDigits(Tail(s)) ELSE 0

\* the first position at or after i that holds no whitespace
RECURSIVE SkipSpaces(_, _)
SkipSpaces(s, i) == IF i <= Len(s) /\ IsSpace(s[i]) THEN SkipSpaces(s, i + 1) ELSE i

\* deprecated lines 1364..1374: the groups of the match (d hour digits, the meridiem at
\* position a) converted to 24 hours
MatchedTime(time_str, d, a) ==
    [ok |-> TRUE,
     hours |-> IF time_str[a] \in {"P", "p"} /\ DigitsValue(SubSeq(time_str, 1, d)) # 12
               THEN DigitsValue(SubSeq(time_str, 1, d)) + 12
               ELSE IF time_str[a] \in {"A", "a"} /\ DigitsValue(SubSeq(time_str, 1, d)) = 12
               THEN 0
               ELSE DigitsValue(SubSeq(time_str, 1, d)),
     minutes |-> DigitsValue(SubSeq(time_str, d + 2, d + 3))]

\* deprecated line 1360: re.match(r'(\d{1,2}):(\d{2})\s*(AM|PM)', s, IGNORECASE) on a
\* string that starts with d digits.  The match starts at the start of s and ignores
\* what follows the meridiem
MatchTime(time_str, d) ==
    IF /\ d \in {1, 2}
       /\ Len(time_str) >= d + 3
       /\ time_str[d + 1] = ":"
       /\ IsDigit(time_str[d + 2])
       /\ IsDigit(time_str[d + 3])
       /\ Len(time_str) >= SkipSpaces(time_str, d + 4) + 1
       /\ time_str[SkipSpaces(time_str, d + 4)] \in {"A", "a", "P", "p"}
       /\ time_str[SkipSpaces(time_str, d + 4) + 1] \in {"M", "m"}
    THEN MatchedTime(time_str, d, SkipSpaces(time_str, d + 4))
    ELSE NoTime

\* deprecated lines 1357..1374
parse_time_string(time_str) == MatchTime(time_str, LeadingDigits(time_str))

\* deprecated line 1379: datetime(...) raises ValueError outside 0..23 and 0..59
DatetimeRaises(hours, minutes) == ~(hours \in 0..23 /\ minutes \in 0..59)

\* deprecated lines 1376..1380
get_timestamp(date, hours, minutes) == ((date * 24 + hours) * 60 + minutes) * 60

\* deprecated lines 1423 and 1453
EndsNextDay(start_time, end_time) ==
    \/ end_time.hours < start_time.hours
    \/ (end_time.hours = 0 /\ end_time.minutes = 0)

\* deprecated lines 1420..1428 and 1450..1458: the instants of a slot whose times parsed
StampedLine(slot, date, stamped, start_time, end_time, end_date) ==
    [stamped |-> stamped,
     raised |-> stamped /\ (\/ DatetimeRaises(start_time.hours, start_time.minutes)
                            \/ DatetimeRaises(end_time.hours, end_time.minutes)),
     slot |-> slot,
     start_ts |-> get_timestamp(date, start_time.hours, start_time.minutes),
     end_ts |-> get_timestamp(end_date, end_time.hours, end_time.minutes)]

\* deprecated lines 1416..1424 and 1446..1454
ParsedLine(slot, date, use_timestamps, two, start_time, end_time) ==
    StampedLine(slot, date, use_timestamps /\ two /\ start_time.ok /\ end_time.ok,
                start_time, end_time,
                IF EndsNextDay(start_time, end_time) THEN date + 1 ELSE date)

SplitLine(slot, date, use_timestamps, time_parts) ==
    ParsedLine(slot, date, use_timestamps, Len(time_parts) = 2,
               IF Len(time_parts) = 2 THEN parse_time_string(time_parts[1]) ELSE NoTime,
               IF Len(time_parts) = 2 THEN parse_time_string(time_parts[2]) ELSE NoTime)

\* deprecated lines 1413..1434 (today, date 0) and 1443..1464 (tomorrow, date 1): what
\* one slot becomes
TimedLine(slot, date, use_timestamps) ==
    SplitLine(slot, date, use_timestamps, SplitOn(slot.time, RangeSep))

TimedLines(slots, date, use_timestamps) ==
    [i \in 1..Len(slots) |-> TimedLine(slots[i], date, use_timestamps)]

\* deprecated lines 1428 and 1430: the f-string of one line
RenderLine(line, format_char) ==
    IF line.stamped
    THEN << Bullet \o " <t:" \o Str(NatToStr(line.start_ts)) \o ":" \o format_char
                   \o "> to <t:" \o Str(NatToStr(line.end_ts)) \o ":" \o format_char
                   \o "> - **",
            line.slot.title, "**: ", line.slot.desc >>
    ELSE << Bullet \o " **" \o Str(line.slot.time) \o "** - ",
            line.slot.title, ": ", line.slot.desc >>

RenderLines(lines, format_char) ==
    JoinLines([i \in 1..Len(lines) |-> RenderLine(lines[i], format_char)])

\* deprecated line 1405
FormatChar(format_str) == IF format_str = <<>> THEN "t" ELSE Str(SplitWS(format_str)[1])

\* deprecated lines 1467..1480: the placeholders and what replaces them, in the order
\* of the dict
Replacements(cfg, title, use_timestamps, format_char, today_lines, tomorrow_lines) ==
    << <<"[title]", <<title>> >>,
       <<"[today]", RenderLines(today_lines, format_char)>>,
       <<"[tomorrow]", RenderLines(tomorrow_lines, format_char)>>,
       <<"[timezone]",
         IF use_timestamps
         THEN <<CodeMark \o "Times auto-adjust to your timezone!" \o CodeMark>>
         ELSE <<CodeMark, cfg.timezone, CodeMark>> >>,
       <<"[link]", <<cfg.channel.link>> >> >>

\* deprecated lines 1384..1487, with the lines of both sections computed.  Any exception
\* (datetime's ValueError, a missing "timezone") is caught at line 1486 and shown in a
\* dialog, and the output box is left as it was
Composed(cfg, message, title, use_timestamps, format_char, today_lines, tomorrow_lines, out) ==
    IF message = <<>> \/ title = "" THEN [result |-> "skipped", output |-> out]
    ELSE IF \/ \E i \in 1..Len(today_lines) : today_lines[i].raised
            \/ \E i \in 1..Len(tomorrow_lines) : tomorrow_lines[i].raised
            \/ (~use_timestamps /\ "timezone" \notin DOMAIN cfg)
    THEN [result |-> "raised", output |-> [out EXCEPT !.error = TRUE]]
    ELSE [result |-> "done",
          output |-> [text |-> ReplaceAll(message,
                                          Replacements(cfg, title, use_timestamps, format_char,
                                                       today_lines, tomorrow_lines)),
                      error |-> FALSE,
                      today |-> today_lines,
                      tomorrow |-> tomorrow_lines]]

\* a generator that stamps the lines whatever the checkbox says
DeprecatedGenerateAlwaysStamped(cfg, w, out) ==
    Composed(cfg, Strip(w.discord_template_text \o <<"\n">>), w.discord_title_entry,
             w.use_timestamps, FormatChar(w.timestamp_format_var),
             TimedLines(ActiveSlots(cfg, "today"), 0, TRUE),
             TimedLines(ActiveSlots(cfg, "tomorrow"), 1, TRUE), out)

\* deprecated lines 1382..1487: what generating does with the widgets w
DeprecatedGenerate(cfg, w, out) ==
    Composed(cfg, Strip(w.discord_template_text \o <<"\n">>), w.discord_title_entry,
             w.use_timestamps, FormatChar(w.timestamp_format_var),
             TimedLines(ActiveSlots(cfg, "today"), 0, w.use_timestamps),
             TimedLines(ActiveSlots(cfg, "tomorrow"), 1, w.use_timestamps), out)

\* the widgets w are set and the message is generated from them
DeprecatedGenerates(w) == Generated(w, DeprecatedGenerate(config, w, discord_output))

\* the "Generate Message" button
deprecated_generate_discord_message == DeprecatedGenerates(widgets)

\* deprecated lines 1083..1093 and 1353..1355: the checkbox is toggled, which regenerates
toggle_use_timestamps ==
    DeprecatedGenerates([widgets EXCEPT !.use_timestamps = ~@])

\* deprecated lines 1103..1120 and 1353..1355: a format is chosen, which regenerates
select_timestamp_format(format_str) ==
    /\ format_str # widgets.timestamp_format_var
    /\ DeprecatedGenerates([widgets EXCEPT !.timestamp_format_var = format_str])

\* deprecated lines 1023..1030: the title is retyped; nothing is regenerated
edit_discord_title(title) ==
    /\ phase = "gui"
    /\ title # widgets.discord_title_entry
    /\ widgets' = [widgets EXCEPT !.discord_title_entry = title]
    /\ op' = Done("edit_discord_title", "", 0, "done", "none")
    /\ UNCHANGED <<manager, phase, config, storage, disk, slot_frames, resp, nops, race,
                   discord_output>>

\* deprecated lines 1103..1111: the choices of the format combobox
TimestampFormats ==
    { <<"t", " ", "-", " ", "S", "h", "o", "r", "t", " ", "T", "i", "m", "e">> }

\* clock times on both sides of noon and midnight, on and off the hour
StampClocks == [hour : {12, 9, 11}, minute : {0, 30}, ampm : {AM, PM}]

\* slot times: every pair of clock times, and the times that are not two clock times
StampTimes ==
    {FormatRange(FormatClock(a), FormatClock(b)) : a, b \in StampClocks} \cup UnparsedTimes

StampTemplate ==
    <<"[title]", "\n", "[today]", "\n", "[tomorrow]", "\n", "[timezone]", " ", "[link]">>

StampConfig(time) ==
    [StoredConfig EXCEPT
        !.schedule.today.normal = <<Slot(time, "Main", "main desc")>>,
        !.schedule.tomorrow.work = <<SlotNoon, Slot(time, "Main", "main desc")>>]

\* deprecated lines 1023..1120: the editor of the Discord tab
DiscordEditor ==
    [discord_template_var |-> "Schedule Update",
     discord_title_entry |-> "Schedule",
     discord_template_text |-> StampTemplate,
     use_timestamps |-> TRUE,
     timestamp_format_var |-> <<"R">>]

InitStamp ==
    /\ manager = TRUE
    /\ phase = "gui"
    /\ \E time \in StampTimes :
          /\ config = StampConfig(time)
          /\ storage = [state |-> "ok", doc |-> ToJson(StampConfig(time))]
          /\ slot_frames = [k \in FrameKeys |-> EditorsFor(Slots(StampConfig(time), k))]
          /\ widgets = DiscordEditor @@ WidgetsFor(StampConfig(time))
    /\ disk = "ok"
    /\ op = NoOp
    /\ resp = NoResp
    /\ nops = 0
    /\ race = NoRace
    /\ discord_output = NoOutput

NextStamp ==
    \/ deprecated_generate_discord_message
    \/ toggle_use_timestamps
    \/ \E f \in TimestampFormats : select_timestamp_format(f)
    \/ \E t \in {"", "Schedule"} : edit_discord_title(t)

SpecStamp == InitStamp /\ [][NextStamp]_vars

(***************************************************************************)
(* Claims about the timestamps                                             *)
(***************************************************************************)
SecondsPerDay == 24 * 60 * 60

\* the calendar date of an instant, and its wall-clock minute of the day
DateOf(ts) == ts \div SecondsPerDay
WallOf(ts) == (ts % SecondsPerDay) \div 60

\* the stamped lines of the last generated message, each with its section's date
StampedLines ==
    {[date |-> 0, line |-> discord_output.today[i]] :
        i \in {j \in 1..Len(discord_output.today) : discord_output.today[j].stamped}}
    \cup {[date |-> 1, line |-> discord_output.tomorrow[i]] :
        i \in {j \in 1..Len(discord_output.tomorrow) : discord_output.tomorrow[j].stamped}}

\* C11: with timestamps enabled, the start instant of every slot whose start and end parse
\* lies on the section's date, and the end instant lies on the following day exactly when
\* the end wall-clock time is earlier than the start (hour and minute) or is midnight
C11_EndDateByWallClock ==
    \A s \in StampedLines :
        /\ DateOf(s.line.start_ts) = s.date
        /\ DateOf(s.line.end_ts) =
              IF \/ WallOf(s.line.end_ts) < WallOf(s.line.start_ts)
                 \/ WallOf(s.line.end_ts) = 0
              THEN s.date + 1 ELSE s.date

\* C12: with timestamps enabled, the rendered end instant of every slot whose start and
\* end parse is strictly later than its rendered start instant
C12_EndAfterStart ==
    \A s \in StampedLines : s.line.end_ts > s.line.start_ts

\* the lines of the last generated message
OutputLines ==
    {discord_output.today[i] : i \in 1..Len(discord_output.today)}
    \cup {discord_output.tomorrow[i] : i \in 1..Len(discord_output.tomorrow)}

\* C13: message composition never fails on a slot's time string, and every slot whose
\* time is not two valid H:MM AM|PM parts is rendered as the literal line
C13_ComposeNeverFails ==
    op.name = "generate_discord_message" =>
        /\ op.result # "raised"
        /\ \A line \in OutputLines : ~IsClockRange(line.slot.time) => ~line.stamped

(***************************************************************************)
(* The Discord tab: templates, placeholders and the generated message      *)
(***************************************************************************)
\* values a user can type, some of them spelling a placeholder
MessageLinks == {"https://twitch.tv/gabe", "{{channel}}"}
MessageTimezones == {"EST", "{{today_type}}"}
MessageTitles == {"Late Night Admin", "{{link}}", "{{tomorrow_schedule}}"}

MessageConfig(link, timezone, title) ==
    [StoredConfig EXCEPT
        !.channel.link = link,
        !.timezone = timezone,
        !.schedule.today.normal = <<Slot(SlotLate.time, title, SlotLate.desc)>>]

\* POST bodies that replace the "discord" object: only the first template is kept, with
\* and without the custom message
OneTemplate == [DefaultDiscord EXCEPT !.templates = <<DefaultDiscord.templates[1]>>]

\* a template without a placeholder that generate_discord_message replaces: {{time}} is
\* not a key of the replacements (lines 995..1008)
PlainTemplate ==
    [name |-> "Plain", title |-> <<"Plain">>,
     message |-> <<"Stream is starting in ", "{{time}}", " minutes!">>,
     useTimestamp |-> FALSE, timestampFormat |-> "t"]

MessagePosts ==
    { [discord |-> OneTemplate],
      [discord |-> [templates |-> OneTemplate.templates, currentTemplate |-> 0]],
      [discord |-> [DefaultDiscord EXCEPT !.templates = <<PlainTemplate>>]] }

\* the readings of the clock at line 1017, in seconds
NowTimes == {0, 60}

InitMessage ==
    /\ manager = TRUE
    /\ phase = "gui"
    /\ \E link \in MessageLinks, timezone \in MessageTimezones, title \in MessageTitles :
          /\ config = MessageConfig(link, timezone, title)
          /\ storage = [state |-> "ok", doc |-> ToJson(MessageConfig(link, timezone, title))]
          /\ slot_frames =
                [k \in FrameKeys |-> EditorsFor(Slots(MessageConfig(link, timezone, title), k))]
          /\ widgets = WidgetsFor(MessageConfig(link, timezone, title))
          /\ \E now \in StartTimes :
                discord_output =
                    PrimaryGenerate(MessageConfig(link, timezone, title),
                                    WidgetsFor(MessageConfig(link, timezone, title)),
                                    NoOutput, now).output
    /\ disk = "ok"
    /\ op = NoOp
    /\ resp = NoResp
    /\ nops = 0
    /\ race = NoRace

NextMessage ==
    \/ \E now \in NowTimes : generate_discord_message(now)
    \/ \E i \in 0..3, now \in NowTimes : select_template(i, now)
    \/ toggle_discord_timestamps
    \/ \E data \in MessagePosts : update_config(data)

SpecMessage == InitMessage /\ [][NextMessage]_vars

(***************************************************************************)
(* Claims about the generated message                                      *)
(***************************************************************************)
\* the value the placeholders give to an atom: its replacement if it is a token
ValueOf(atom, replacements) ==
    IF \E i \in 1..Len(replacements) : replacements[i][1] = atom
    THEN replacements[CHOOSE i \in 1..Len(replacements) : replacements[i][1] = atom][2]
    ELSE <<atom>>

\* substitution in one pass: every token of the text is replaced by its value, and the
\* inserted values are not scanned
RECURSIVE SinglePass(_, _)
SinglePass(text, replacements) ==
    IF text = <<>> THEN <<>>
    ELSE ValueOf(Head(text), replacements) \o SinglePass(Tail(text), replacements)

\* the message of the selected template substituted in one pass
RenderedSinglePass(cfg, template, use_timestamps, now) ==
    FullMessage(SinglePass(template.title, PlaceholderValues(cfg)),
                Stamped(template, SinglePass(template.message, PlaceholderValues(cfg)),
                        use_timestamps, now))

\* the last operation generated a message
GeneratedNow == op.name = "generate_discord_message" /\ op.result = "done"

\* C14: placeholder substitution is non-recursive: a token string inside a substituted
\* value appears verbatim in the output, so the message equals the one-pass substitution
C14_SubstitutionIsSinglePass ==
    GeneratedNow =>
        \E now \in NowTimes :
            discord_output.text =
                RenderedSinglePass(config,
                                   SelectedTemplate(config, widgets.discord_template_var),
                                   widgets.use_timestamps, now)

\* C15: composing with a template reference that is not in discord.templates fails with
\* an explicit error; no message is rendered from a substitute template
C15_MissingTemplateFails ==
    (/\ op.name = "generate_discord_message"
     /\ widgets.discord_template_var >= Len(config.discord.templates))
        => op.result = "raised"

(***************************************************************************)
(* Loading: what config.json can hold when the program starts              *)
(***************************************************************************)
\* the longest legacy mapping of slots that is loaded
MaxLegacy == 11

OptionalFields == {"theme", "timezone", "exportScope", "layout", "discord"}

\* the document without the top-level fields in fields
Without(doc, fields) == [f \in DOMAIN doc \ fields |-> doc[f]]

\* the slot stored under the index i of a legacy mapping
LegacySlot(i) == Slot(SlotNoon.time, Str(NatToStr(i)), "legacy")

\* the keys "0".."n-1" in the order the file lists them
LegacyKeys(n, descending) ==
    [j \in 1..n |-> IF descending THEN NatToStr(n - j) ELSE NatToStr(j - 1)]

LegacyItems(n, descending) ==
    [j \in 1..n |-> IF descending THEN LegacySlot(n - j) ELSE LegacySlot(j - 1)]

\* a stored tree whose schedule[day][type] of key k is the mapping {"0": ..., "n-1": ...}
LegacyDoc(k, n, descending) ==
    [ToJson(StoredConfig) EXCEPT
        !.schedule[KeyDay[k]][KeyType[k]] =
            DictNode(LegacyKeys(n, descending), LegacyItems(n, descending))]

\* a document whose channel name came from the escape of half a surrogate pair
SurrogateConfig == [StoredConfig EXCEPT !.channel.name = LoneSurrogateName]

LoadStorages ==
    { [state |-> "absent", doc |-> NoDoc],
      [state |-> "unreadable", doc |-> ToJson(StoredConfig)],
      [state |-> "corrupt", doc |-> NoDoc],
      [state |-> "empty", doc |-> NoDoc],
      [state |-> "ok", doc |-> ListNode(<<>>)],                       \* the text "[]"
      [state |-> "ok", doc |-> [kind |-> "null"]],                    \* the text "null"
      [state |-> "ok", doc |-> [channel |-> StoredConfig.channel]],   \* no "schedule"
      [state |-> "ok", doc |-> ToJson(StoredConfig)],
      [state |-> "ok", doc |-> ToJson(DefaultConfig)],
      [state |-> "ok", doc |-> ToJson(SurrogateConfig)],
      [state |-> "ok", doc |-> Without(ToJson(StoredConfig), OptionalFields)] }
    \cup {[state |-> "ok", doc |-> Without(ToJson(StoredConfig), {f})] : f \in OptionalFields}
    \cup {[state |-> "ok", doc |-> LegacyDoc(k, n, descending)] :
             k \in FrameKeys, n \in 1..MaxLegacy, descending \in BOOLEAN}

InitLoad ==
    /\ manager = FALSE
    /\ phase = "import"
    /\ config = NoDoc
    /\ storage \in LoadStorages
    /\ disk = "ok"
    /\ slot_frames = NoFrames
    /\ widgets = NoWidgets
    /\ op = NoOp
    /\ resp = NoResp
    /\ nops = 0
    /\ race = NoRace
    /\ discord_output = NoOutput

NextLoad ==
    \/ main
    \/ create_gui
    \/ \E now \in NowTimes : generate_discord_message(now)
    \/ add_new_slot("today_normal")
    \/ save_all_changes
    \/ \E confirm \in BOOLEAN : reload_configuration(confirm)

SpecLoad == InitLoad /\ [][NextLoad]_vars

(***************************************************************************)
(* Claims about loading                                                    *)
(***************************************************************************)
\* the document was loaded and nothing has been done since
JustLoaded == phase = "started"

\* storage is absent, unreadable, not parseable, or its root is not a mapping
Unloadable(st) == st.state # "ok" \/ ~IsMapping(st.doc)

\* C16: when storage is absent, unreadable, not parseable as JSON or its root is not a
\* mapping, load_config returns exactly the hardcoded default document, whose schedule has
\* 4 normal slots and 2 work slots for today and for tomorrow
C16_UnloadableGivesDefault ==
    (JustLoaded /\ Unloadable(storage)) =>
        /\ config = DefaultConfig
        /\ \A day \in Days :
              /\ Len(config.schedule[day].normal) = 4
              /\ Len(config.schedule[day].work) = 2

\* a file that exists with a valid document, but cannot be opened, was loaded
C16_Witness ==
    /\ JustLoaded
    /\ storage = [state |-> "unreadable", doc |-> ToJson(StoredConfig)]
    /\ config = DefaultConfig

\* C17: loading a mapping that lacks optional top-level fields fills each of them, and no
\* later operation that reads them raises: the GUI is built and no generation fails
C17_OptionalFieldsFilled ==
    phase # "import" =>
        /\ OptionalFields \subseteq DOMAIN config
        /\ phase # "exited"
        /\ ~discord_output.error

\* C18: for every document produced by load_config, saving it and loading again yields
\* the same document, and a second save and load changes nothing
C18_SaveLoadRoundTrip ==
    JustLoaded =>
        /\ load_config(StorageAfterSave(storage, config, "ok")) = config
        /\ load_config(StorageAfterSave(StorageAfterSave(storage, config, "ok"),
                                        load_config(StorageAfterSave(storage, config, "ok")),
                                        "ok")) = config

\* C19: a schedule[day][type] stored as a mapping keyed "0".."n-1" is loaded as the
\* sequence of its slots in ascending index order
C19_LegacyMappingInIndexOrder ==
    (JustLoaded /\ storage.state = "ok" /\ HasSlotLists(storage.doc)) =>
        \A k \in FrameKeys :
            storage.doc.schedule[KeyDay[k]][KeyType[k]].kind = "dict" =>
                /\ Len(Slots(config, k)) = Len(storage.doc.schedule[KeyDay[k]][KeyType[k]].keys)
                /\ \A i \in 1..Len(Slots(config, k)) :
                      \A j \in 1..Len(Slots(config, k)) :
                          storage.doc.schedule[KeyDay[k]][KeyType[k]].keys[j] = NatToStr(i - 1)
                              => Slots(config, k)[i] =
                                     storage.doc.schedule[KeyDay[k]][KeyType[k]].items[j]

\* no atom of the text is a placeholder that generate_discord_message replaces
TokenFree(text) ==
    \A i \in 1..Len(text) :
        \A j \in 1..Len(PlaceholderValues(config)) : text[i] # PlaceholderValues(config)[j][1]

\* the template the last message was generated from
ShownTemplate == SelectedTemplate(config, widgets.discord_template_var)

\* C24: a template whose message and title contain no recognized token renders with its
\* body unchanged: the output is the bold title line followed by the template body
\* verbatim, whatever the template's timestamp settings, and token-like text that is
\* not recognized, such as {{time}}, is left verbatim
C24_TokenFreeTemplateUnchanged ==
    (GeneratedNow /\ TokenFree(ShownTemplate.title) /\ TokenFree(ShownTemplate.message)) =>
        discord_output.text = FullMessage(ShownTemplate.title, ShownTemplate.message)

(***************************************************************************)
(* Claim about the message without timestamps                              *)
(***************************************************************************)
\* the literal line of every active slot of a day, built from the raw time string
LiteralLines(day) ==
    JoinLines([i \in 1..Len(config.schedule[day][config.schedule[day].type]) |->
                  ScheduleLine(config.schedule[day][config.schedule[day].type][i])])

\* the editor's template with [today] and [tomorrow] replaced by literal lines and
\* [timezone] by the timezone label of the document, in code marks
LiteralMessage ==
    SinglePass(Strip(widgets.discord_template_text),
               << <<"[title]", <<widgets.discord_title_entry>> >>,
                  <<"[today]", LiteralLines("today")>>,
                  <<"[tomorrow]", LiteralLines("tomorrow")>>,
                  <<"[timezone]", <<CodeMark, config.timezone, CodeMark>> >>,
                  <<"[link]", <<config.channel.link>> >> >>)

AutoAdjustNotice == CodeMark \o "Times auto-adjust to your timezone!" \o CodeMark

Atoms(text) == {text[i] : i \in 1..Len(text)}

\* C23: with timestamps disabled the composed message has no computed timestamp: every
\* slot line is the literal form built from the raw time string, whether or not the time
\* would parse, and [timezone] is replaced by the document's timezone label; with
\* timestamps enabled [timezone] is replaced by the fixed auto-adjust notice instead
C23_LiteralWithoutTimestamps ==
    GeneratedNow =>
        IF widgets.use_timestamps
        THEN /\ AutoAdjustNotice \in Atoms(discord_output.text)
             /\ config.timezone \notin Atoms(discord_output.text)
        ELSE /\ discord_output.text = LiteralMessage
             /\ AutoAdjustNotice \notin Atoms(discord_output.text)
             /\ \A line \in OutputLines : ~line.stamped

\* a message generated with timestamps disabled for a slot whose time parses
C23_Witness ==
    /\ GeneratedNow
    /\ ~widgets.use_timestamps
    /\ IsClockRange(config.schedule.today.normal[1].time)
    /\ discord_output.text = LiteralMessage

(***************************************************************************)
(* The schedule text of a day in the generated message                     *)
(***************************************************************************)
\* documents whose four sequences hold 0 to 3 slots, with each day's type either way
ScheduleConfigs ==
    { [StoredConfig EXCEPT !.schedule =
          [s EXCEPT !.today.type = today_type, !.tomorrow.type = tomorrow_type]] :
        s \in {StoredConfig.schedule, EmptySchedule, PostedSchedule},
        today_type \in Types, tomorrow_type \in Types }

InitSchedule ==
    /\ manager = TRUE
    /\ phase = "gui"
    /\ config \in ScheduleConfigs
    /\ storage = [state |-> "ok", doc |-> ToJson(config)]
    /\ slot_frames = [k \in FrameKeys |-> EditorsFor(Slots(config, k))]
    /\ widgets = WidgetsFor(config)
    /\ \E now \in StartTimes :
          discord_output = PrimaryGenerate(config, WidgetsFor(config), NoOutput, now).output
    /\ disk = "ok"
    /\ op = NoOp
    /\ resp = NoResp
    /\ nops = 0
    /\ race = NoRace

NextSchedule ==
    \/ \E now \in NowTimes : generate_discord_message(now)
    \/ \E i \in 0..3, now \in NowTimes : select_template(i, now)
    \/ \E k \in FrameKeys : add_new_slot(k)

SpecSchedule == InitSchedule /\ [][NextSchedule]_vars

(***************************************************************************)
(* Claim about the schedule text                                           *)
(***************************************************************************)
\* the index of the "Schedule Update" template among the default templates
ScheduleUpdate == CHOOSE i \in 0..2 : DefaultDiscord.templates[i + 1].name = "Schedule Update"

\* the "Schedule Update" message was generated last
ScheduleShown ==
    /\ GeneratedNow
    /\ widgets.discord_template_var = ScheduleUpdate
    /\ SelectedTemplate(config, ScheduleUpdate) = DefaultDiscord.templates[ScheduleUpdate + 1]

IndexOf(text, atom) == CHOOSE i \in 1..Len(text) : text[i] = atom

\* what the message shows between the heading `from` (followed by the type and a
\* newline) and the two newlines before the heading `to`
Between(text, from, to) == SubSeq(text, IndexOf(text, from) + 3, IndexOf(text, to) - 3)

ShownSchedule(day) ==
    IF day = "today"
    THEN Between(discord_output.text, "**Today:** ", "**Tomorrow:** ")
    ELSE Between(discord_output.text, "**Tomorrow:** ", "Times are in ")

\* the number of newlines in a text
RECURSIVE Separators(_)
Separators(text) ==
    IF text = <<>> THEN 0
    ELSE (IF Head(text) = "\n" THEN 1 ELSE 0) + Separators(Tail(text))

\* the text cut at its newlines; the empty text has no line
RECURSIVE LinesOf(_, _)
LinesOf(text, line) ==
    IF text = <<>> THEN <<line>>
    ELSE IF Head(text) = "\n" THEN <<line>> \o LinesOf(Tail(text), <<>>)
    ELSE LinesOf(Tail(text), Append(line, Head(text)))

OneLinePerSlot(text, slots) ==
    IF slots = <<>> THEN text = <<>>
    ELSE /\ LinesOf(text, <<>>) = [i \in 1..Len(slots) |-> ScheduleLine(slots[i])]
         /\ Separators(text) = Len(slots) - 1
         /\ Head(text) # "\n"
         /\ text[Len(text)] # "\n"

\* C22: the schedule text substituted for a day is exactly one line per slot of that
\* day's active-type sequence (never the inactive one), in slot order, joined by single
\* newlines with no leading or trailing separator: n slots give n lines, n-1 separators
C22_OneLinePerActiveSlot ==
    ScheduleShown =>
        \A day \in Days :
            OneLinePerSlot(ShownSchedule(day), config.schedule[day][config.schedule[day].type])

\* today's active sequence has 2 or more slots and differs from the inactive sequence;
\* tomorrow's has none or one
C22_Witness ==
    /\ ScheduleShown
    /\ Len(config.schedule.today[config.schedule.today.type]) >= 2
    /\ config.schedule.today.normal # config.schedule.today.work
    /\ Len(config.schedule.tomorrow[config.schedule.tomorrow.type]) <= 1
    /\ nops >= 1

(***************************************************************************)
(* src/deprecated_python: the template list of the Discord tab.  A template *)
(* is [name, title, message, useTimestamp, timestampFormat], its title a    *)
(* string as the title entry holds it and its message a text.               *)
(***************************************************************************)
\* deprecated lines 1267..1270: a template of that name is in the list
NameNeverExists(templates, name) == FALSE

NameExists(templates, name) == \E i \in 1..Len(templates) : templates[i].name = name

\* deprecated lines 1273..1279: the template that "New" creates (the emoji of its title
\* and message are left out)
NewTemplate(name) ==
    [name |-> name,
     title |-> "Stream Announcement",
     message |-> <<"@everyone", "\n", "\n", "**Today's Schedule:**", "\n", "[today]",
                   "\n", "\n", "Join us at: ", "[link]">>,
     useTimestamp |-> TRUE,
     timestampFormat |-> "R"]

\* deprecated lines 1214..1220: format_map, the combobox entry of a format code
FormatLabel(code) ==
    CASE code = "R" ->
           <<"R", " ", "-", " ", "R", "e", "l", "a", "t", "i", "v", "e", " ", "(", "i", "n", " ", "2", " ", "h", "o", "u", "r", "s", ")">>
      [] code = "t" ->
           <<"t", " ", "-", " ", "S", "h", "o", "r", "t", " ", "T", "i", "m", "e", " ", "(", "1", "0", ":", "3", "0", " ", "A", "M", ")">>
      [] code = "T" ->
           <<"T", " ", "-", " ", "L", "o", "n", "g", " ", "T", "i", "m", "e", " ", "(", "1", "0", ":", "3", "0", ":", "0", "0", " ", "A", "M", ")">>
      [] code = "f" ->
           <<"f", " ", "-", " ", "S", "h", "o", "r", "t", " ", "D", "a", "t", "e", "/", "T", "i", "m", "e">>
      [] code = "F" ->
           <<"F", " ", "-", " ", "L", "o", "n", "g", " ", "D", "a", "t", "e", "/", "T", "i", "m", "e">>

FormatCodes == {"R", "t", "T", "f", "F"}

\* deprecated lines 1203..1223: the template is loaded into the editor
Loaded(w, template) ==
    [w EXCEPT
        !.discord_title_entry = template.title,
        !.discord_template_text = template.message,
        !.use_timestamps = template.useTimestamp,
        !.timestamp_format_var =
            IF template.timestampFormat \in FormatCodes
            THEN FormatLabel(template.timestampFormat) ELSE @]

\* deprecated lines 1192..1226: on_template_selected, the widgets after it; a name
\* that matches no template changes nothing
Selected(templates, w) ==
    IF NameExists(templates, w.discord_template_var)
    THEN Loaded(w, templates[CHOOSE i \in 1..Len(templates) :
                                 /\ templates[i].name = w.discord_template_var
                                 /\ \A j \in 1..(i - 1) :
                                       templates[j].name # w.discord_template_var])
    ELSE w

\* the message box after on_template_selected: generated when a template was found
SelectedOutput(cfg, w, out) ==
    IF NameExists(cfg.discord.templates, w.discord_template_var)
    THEN DeprecatedGenerate(cfg, Selected(cfg.discord.templates, w), out).output
    ELSE out

\* a handler of the template buttons ends with the document cfg and the widgets w
TemplatesDone(name, key, result, cfg, w, out) ==
    /\ phase = "gui"
    /\ nops < MaxOps
    /\ config' = cfg
    /\ widgets' = w
    /\ discord_output' = out
    /\ op' = Done(name, key, 0, result, "none")
    /\ nops' = nops + 1
    /\ UNCHANGED <<manager, phase, storage, disk, slot_frames, resp, race>>

WithTemplates(cfg, templates) == [cfg EXCEPT !.discord.templates = templates]

\* deprecated lines 1263..1288: "Create" in the dialog of new_template, with the name
\* as it is after strip()
create_template(name) ==
    IF name = ""
    THEN TemplatesDone("new_template", name, "ignored", config, widgets, discord_output)
    ELSE IF NameExists(config.discord.templates, name)
    THEN TemplatesDone("new_template", name, "refused", config, widgets, discord_output)
    ELSE TemplatesDone("new_template", name, "done",
             WithTemplates(config, Append(config.discord.templates, NewTemplate(name))),
             Selected(Append(config.discord.templates, NewTemplate(name)),
                      [widgets EXCEPT !.discord_template_var = name]),
             SelectedOutput(WithTemplates(config,
                                Append(config.discord.templates, NewTemplate(name))),
                            [widgets EXCEPT !.discord_template_var = name],
                            discord_output))

\* deprecated lines 1240..1288: the text typed in the dialog, then "Create"
new_template(typed) == create_template(Str(Strip(typed)))

\* the templates whose name is not the selected one
RECURSIVE Others(_, _)
Others(templates, name) ==
    IF templates = <<>> THEN <<>>
    ELSE IF Head(templates).name = name THEN Others(Tail(templates), name)
    ELSE <<Head(templates)>> \o Others(Tail(templates), name)

\* deprecated lines 1322..1331: the list without the selected template, the first of
\* the remaining templates selected
Deleted(kept) ==
    TemplatesDone("delete_template", widgets.discord_template_var, "done",
        WithTemplates(config, kept),
        IF kept = <<>> THEN widgets
        ELSE Selected(kept, [widgets EXCEPT !.discord_template_var = kept[1].name]),
        IF kept = <<>> THEN discord_output
        ELSE SelectedOutput(WithTemplates(config, kept),
                            [widgets EXCEPT !.discord_template_var = kept[1].name],
                            discord_output))

\* deprecated lines 1313..1331
delete_template(confirm) ==
    IF Len(config.discord.templates) <= 1
    THEN TemplatesDone("delete_template", widgets.discord_template_var, "refused",
                       config, widgets, discord_output)
    ELSE IF ~confirm
    THEN TemplatesDone("delete_template", widgets.discord_template_var, "declined",
                       config, widgets, discord_output)
    ELSE Deleted(Others(config.discord.templates, widgets.discord_template_var))

\* deprecated lines 1339..1347: the editor's fields are written into the template
Updated(template, w) ==
    [template EXCEPT
        !.title = w.discord_title_entry,
        !.message = Strip(w.discord_template_text \o <<"\n">>),
        !.useTimestamp = w.use_timestamps,
        !.timestampFormat =
            IF w.timestamp_format_var # <<>>
            THEN Str(SplitWS(w.timestamp_format_var)[1]) ELSE @]

\* deprecated lines 1338..1351: only the first template of that name is updated
UpdatedFirst(templates, w) ==
    [i \in 1..Len(templates) |->
        IF /\ templates[i].name = w.discord_template_var
           /\ \A j \in 1..(i - 1) : templates[j].name # w.discord_template_var
        THEN Updated(templates[i], w) ELSE templates[i]]

\* deprecated lines 1333..1351
save_template_changes ==
    IF NameExists(config.discord.templates, widgets.discord_template_var)
    THEN TemplatesDone("save_template_changes", widgets.discord_template_var, "done",
             WithTemplates(config, UpdatedFirst(config.discord.templates, widgets)),
             widgets,
             DeprecatedGenerate(WithTemplates(config,
                                    UpdatedFirst(config.discord.templates, widgets)),
                                widgets, discord_output).output)
    ELSE TemplatesDone("save_template_changes", widgets.discord_template_var, "ignored",
                       config, widgets, discord_output)

\* deprecated lines 959..967: a name is chosen in the combobox
choose_template(name) ==
    /\ name # widgets.discord_template_var
    /\ NameExists(config.discord.templates, name)
    /\ TemplatesDone("on_template_selected", name, "done", config,
           Selected(config.discord.templates, [widgets EXCEPT !.discord_template_var = name]),
           SelectedOutput(config, [widgets EXCEPT !.discord_template_var = name],
                          discord_output))

\* deprecated lines 371..392, the emoji left out: two of the default templates
LiveTemplate ==
    [name |-> "Stream Live", title |-> "WE'RE LIVE!",
     message |-> <<"@everyone We're live right now!", "\n", "\n", "[today]", "\n", "\n",
                   "Watch at: ", "[link]">>,
     useTimestamp |-> TRUE, timestampFormat |-> "t"]

UpdateTemplate ==
    [name |-> "Schedule Update", title |-> "Schedule Update",
     message |-> <<"**Today:**", "\n", "[today]", "\n", "\n", "**Tomorrow:**", "\n",
                   "[tomorrow]", "\n", "\n", "[timezone]">>,
     useTimestamp |-> TRUE, timestampFormat |-> "f"]

\* template lists with pairwise distinct names
TemplateLists == { <<LiveTemplate>>, <<LiveTemplate, UpdateTemplate>> }

\* what is typed in the dialog of new_template
TypedNames ==
    { <<" ">>, <<"Plain">>, <<" ", "Stream Live", " ">>, <<"Schedule Update">>, <<"Extra", "\n">> }

TemplateNames == {"Stream Live", "Schedule Update", "Plain", "Extra"}

TemplateConfig(templates) ==
    [StoredConfig EXCEPT !.discord = [templates |-> templates, currentTemplate |-> 0]]

\* deprecated lines 953..958 and 1190: the first template is selected and loaded
InitTemplates ==
    /\ manager = TRUE
    /\ phase = "gui"
    /\ \E templates \in TemplateLists :
          /\ config = TemplateConfig(templates)
          /\ storage = [state |-> "ok", doc |-> ToJson(TemplateConfig(templates))]
          /\ slot_frames = [k \in FrameKeys |-> EditorsFor(Slots(TemplateConfig(templates), k))]
          /\ widgets = Selected(templates,
                           [DiscordEditor EXCEPT !.discord_template_var = templates[1].name]
                               @@ WidgetsFor(TemplateConfig(templates)))
          /\ discord_output =
                SelectedOutput(TemplateConfig(templates),
                    [DiscordEditor EXCEPT !.discord_template_var = templates[1].name]
                        @@ WidgetsFor(TemplateConfig(templates)),
                    NoOutput)
    /\ disk = "ok"
    /\ op = NoOp
    /\ resp = NoResp
    /\ nops = 0
    /\ race = NoRace

NextTemplates ==
    \/ \E typed \in TypedNames : new_template(typed)
    \/ \E confirm \in BOOLEAN : delete_template(confirm)
    \/ save_template_changes
    \/ \E name \in TemplateNames : choose_template(name)
    \/ \E t \in {"", "Schedule"} : edit_discord_title(t)

SpecTemplates == InitTemplates /\ [][NextTemplates]_vars

(***************************************************************************)
(* Claim about the template list                                           *)
(***************************************************************************)
DistinctNames(templates) ==
    \A i \in 1..Len(templates) : \A j \in 1..Len(templates) :
        templates[i].name = templates[j].name => i = j

\* C25: starting from templates with pairwise distinct names, after every new-template,
\* delete-template and save-template-changes action the names in discord.templates are
\* pairwise distinct; creating a template whose name already exists is refused and
\* leaves the list unchanged
C25_TemplateNamesUnique ==
    [][/\ DistinctNames(config.discord.templates) => DistinctNames(config'.discord.templates)
       /\ (/\ Step("new_template")
           /\ \E i \in 1..Len(config.discord.templates) :
                 config.discord.templates[i].name = op'.key)
              => /\ op'.result = "refused"
                 /\ config'.discord.templates = config.discord.templates]_vars

\* a template was created after another change, and the names are distinct
C25_Witness ==
    /\ op.name = "new_template"
    /\ op.result = "done"
    /\ nops >= 2
    /\ Len(config.discord.templates) >= 2
    /\ config.discord.templates[Len(config.discord.templates)].name = op.key
    /\ DistinctNames(config.discord.templates)

====
